---- MODULE Spec2Model ----
(***************************************************************************)
(* gift-watch: the durable danmaku queue (core/danmaku_queue.py) and the   *)
(* queue worker of the sender (core/danmaku_sender.py).                    *)
(*                                                                         *)
(* Time is the wall clock read by time.time(), counted in whole seconds    *)
(* from 1.  A row's id is its index in rows (sqlite rowid, 1, 2, ...).     *)
(* NULL columns, the meta default 0 and an unbound / None msg are all 0,   *)
(* which no timestamp and no id ever equals.                               *)
(***************************************************************************)
EXTENDS Integers, Sequences, FiniteSets, TLC

\* ---- bounds of the model ------------------------------------------------
MaxTime == 4
MaxRows == 3
MaxFaults == 1
MaxCalls == 3
MaxCooldown == 2
MaxDaily == 1
TsSpan == 3
DayLen == 2
MaxAmount == 2
MaxEvents == 3
MaxClock == 6
MaxGiftId == 2
MaxMinNum == 2
MaxLen == 3
MaxGifts == 3

\* ---- values -------------------------------------------------------------
NULL == 0
ROOM == 1

\* DanmakuQueue.__init__(..., interval_sec: int = 3)
DEFAULT_INTERVAL_SEC == 3

Callers == {"c1", "c2"}

\* IngestPipeline.THANK_DELAY_SECONDS
THANK_DELAY_SECONDS == 5

\* gift names and quantities (gift.num) of the events
GiftNames == {"Star", "Moon"}
Nums == {1}

\* dict.get(uid) of a missing key: None, which is no day
NoDay == NULL - 1

\* the actors (uid keys) of the rate limiter
Actors == {"A", "B"}

\* gift.ts and time.time() are epoch seconds, far beyond any cooldown
Timestamps == MaxCooldown .. MaxCooldown + TsSpan

VARIABLES
    now,            \* time.time()
    interval_sec,   \* DanmakuQueue.interval_sec
    rows,           \* table danmaku_queue, in id order
    last_sent_at,   \* table danmaku_queue_meta: room_id -> last_sent_at
    task,           \* DanmakuSender._queue_task: "none", "running", "done"
    pc,             \* position of _queue_loop
    msg,            \* local msg of _queue_loop: NULL or [id, not_before]
    wake,           \* deadline of the pending asyncio.sleep
    exc,            \* the exception being handled by _queue_loop, or "none"
    faults,         \* number of store errors raised so far
    hist_enq_nb,    \* history: the not_before each enqueue assigned, by id
    hist_resched,   \* history: ids that reschedule has rewritten
    db_lock,        \* holder of sqlite's write lock, or "free"
    cpc,            \* position of each concurrent claim_next caller
    cnow,           \* the now each caller read
    crow,           \* the row each caller selected
    returned,       \* the ids claim_next returned to each caller
    throttled,      \* history: the backoff that the latest 'too fast' answer opened
    global_cooldown_sec,    \* RateLimiter.global_cooldown_sec
    per_user_cooldown_sec,  \* RateLimiter.per_user_cooldown_sec
    per_user_daily_limit,   \* RateLimiter.per_user_daily_limit
    last_global_ts,         \* RateLimiter._last_global_ts
    last_user_ts,           \* RateLimiter._last_user_ts, 0 for a missing key
    user_day,               \* RateLimiter._user_day, NoDay for a missing key
    user_day_count,         \* RateLimiter._user_day_count, 0 for a missing key
    allow_log,              \* history: every allow call, [uid, now, ignore, ok]
    current_day,            \* DailyGiftCounter._current_day, NoDay for None
    counts,                 \* DailyGiftCounter._counts, 0 for a missing key
    add_log,                \* history: every add call, [key, amount, day, total]
    clock,                  \* the time of the pipeline's event loop
    sender_set,             \* IngestPipeline.sender is not None
    pending_thanks,         \* IngestPipeline._pending_thanks: key -> <<>> or <<gifts>>
    flush_tasks,            \* the live _flush_thanks_after_delay tasks, [id, key, wake]
    outbox,                 \* the calls of sender.send_summary_thanks, [key, gifts]
    handled,                \* number of handle_event calls so far; a call's number is its id
    sink,                   \* table gifts: the ids insert_gift has written, in order
    last_kind,              \* history: the kind of the latest event handled
    last_raised,            \* history: id of the latest event whose handle_event raised
    agg_first,              \* history: when the open aggregate of a key was created
    rule,                   \* the GiftRule build_rule returned
    checked,                \* history: the latest gift the rule judged, with both answers
    message,                \* _send_direct: its argument, a string as a sequence of characters
    max_length,             \* DanmakuSender.max_length, 0 for no limit
    send_pc,                \* _send_direct: "idle", "first", "retry", "returned", "raised"
    attempts,               \* history: the texts given to room.send_danmaku, in order
    replies,                \* history: the channel's answer to each attempt
    queue_lock,             \* DanmakuSender._queue_lock: its holder, or "free"
    queue_task,             \* DanmakuSender._queue_task: a task id, NULL for None
    loop_tasks,             \* the _queue_loop tasks created so far: "running" or "done"
    epc,                    \* position of each concurrent _enqueue_or_send call
    thanks_day,             \* IngestPipeline._thanks_day, NoDay for None
    threshold_hits,         \* IngestPipeline._threshold_hits, 0 for a missing key
    user_day_thanks,        \* IngestPipeline._user_day_thanks, 0 for a missing key
    true_total,             \* history: what each actor gave in target gifts, by day
    fire_count,             \* history: the notifications buffered for each actor, by day
    settings_rest,          \* IngestPipeline.settings: the fields that reach neither rule nor limiter
    last_op,                \* history: the last call on the store shared by several rooms
    parsed,                 \* what the last parse_send_gift / parse_guard_buy call returned
    outlet                  \* DanmakuSender._queue set or not; history: what the _enqueue_or_send calls stored, sent and started

storeVars == <<rows, last_sent_at, hist_enq_nb, hist_resched>>
workerVars == <<task, pc, msg, wake, exc, faults>>
callerVars == <<db_lock, cpc, cnow, crow, returned>>
limiterVars == <<global_cooldown_sec, per_user_cooldown_sec, per_user_daily_limit,
                 last_global_ts, last_user_ts, user_day, user_day_count, allow_log>>
queueVars == <<now, interval_sec, storeVars, workerVars, callerVars, throttled>>
counterVars == <<current_day, counts, add_log>>
pipeVars == <<clock, sender_set, pending_thanks, flush_tasks, outbox, handled, sink,
              last_kind, last_raised, agg_first>>
ruleVars == <<rule, checked>>
sendVars == <<message, max_length, send_pc, attempts, replies>>
ensureVars == <<queue_lock, queue_task, loop_tasks, epc>>
thanksVars == <<thanks_day, threshold_hits, user_day_thanks, true_total, fire_count,
                settings_rest>>
roomVars == <<last_op>>
parserVars == <<parsed>>
outletVars == <<outlet>>
otherVars == <<limiterVars, counterVars, pipeVars, ruleVars, sendVars, ensureVars, thanksVars, roomVars, parserVars, outletVars>>
vars == <<now, interval_sec, rows, last_sent_at, task, pc, msg, wake, exc, faults,
          hist_enq_nb, hist_resched, db_lock, cpc, cnow, crow, returned, throttled,
          global_cooldown_sec, per_user_cooldown_sec, per_user_daily_limit,
          last_global_ts, last_user_ts, user_day, user_day_count, allow_log,
          current_day, counts, add_log,
          clock, sender_set, pending_thanks, flush_tasks, outbox, handled, sink,
          last_kind, last_raised, agg_first,
          rule, checked,
          message, max_length, send_pc, attempts, replies,
          queue_lock, queue_task, loop_tasks, epc,
          thanks_day, threshold_hits, user_day_thanks, true_total, fire_count,
          settings_rest, last_op, parsed, outlet>>

\* ---- helpers ------------------------------------------------------------
Max2(a, b) == IF a >= b THEN a ELSE b

SetMax(S) == CHOOSE x \in S : \A y \in S : y <= x

SetMin(S) == CHOOSE x \in S : \A y \in S : x <= y

Ids(rs) == DOMAIN rs

\* ---- core/danmaku_queue.py ----------------------------------------------

\* DanmakuQueue.__init__: self.interval_sec = max(1, interval_sec)
InitInterval(interval) == Max2(1, interval)

\* variant: WHERE status = 'sending', the pending rows forgotten
OutstandingSendingOnly(rs, room) ==
    {i \in Ids(rs) : rs[i].room_id = room /\ rs[i].status = "sending"}

\* variant: WHERE status = 'pending', the rows being sent forgotten
OutstandingPendingOnly(rs, room) ==
    {i \in Ids(rs) : rs[i].room_id = room /\ rs[i].status = "pending"}

\* variant: AND room_id=? left out
OutstandingAnyRoom(rs, room) ==
    {i \in Ids(rs) : rs[i].status \in {"pending", "sending"}}

\* rows WHERE status IN ('pending', 'sending') AND room_id=?
Outstanding(rs, room) ==
    {i \in Ids(rs) : rs[i].room_id = room /\ rs[i].status \in {"pending", "sending"}}

\* variant: the last_sent_at term left out
ComputeNotBeforeNoMeta(rs, meta, room, interval, t, earliest) ==
    LET base0 == IF earliest = <<>> THEN t ELSE Max2(t, earliest[1])
        out == Outstanding(rs, room)
    IN  IF out # {}
        THEN Max2(base0, SetMax({rs[i].not_before : i \in out}) + interval)
        ELSE base0

\* _compute_not_before(conn, earliest); earliest is <<>> for None, <<t>> for t
ComputeNotBefore(rs, meta, room, interval, t, earliest) ==
    LET base0 == IF earliest = <<>> THEN t ELSE Max2(t, earliest[1])
        out == Outstanding(rs, room)
        base1 == IF out # {}
                 THEN Max2(base0, SetMax({rs[i].not_before : i \in out}) + interval)
                 ELSE base0
        last_sent == meta[room]
    IN  IF last_sent # 0 THEN Max2(base1, last_sent + interval) ELSE base1

\* enqueue: the INSERT of one 'pending' row
EnqueueRow(rs, meta, room, interval, t) ==
    Append(rs, [room_id |-> room,
                status |-> "pending",
                not_before |-> ComputeNotBefore(rs, meta, room, interval, t, <<>>),
                sent_at |-> NULL,
                last_error |-> "NULL"])

\* claim_next: rows WHERE status='pending' AND room_id=? AND not_before <= ?
Eligible(rs, room, t) ==
    {i \in Ids(rs) : /\ rs[i].room_id = room
                     /\ rs[i].status = "pending"
                     /\ rs[i].not_before <= t}

\* variant: ORDER BY not_before DESC, id DESC
SelectNextNewestFirst(rs, room, t) ==
    LET el == Eligible(rs, room, t)
    IN  IF el = {} THEN NULL
        ELSE LET nb == SetMax({rs[i].not_before : i \in el})
             IN  SetMax({i \in el : rs[i].not_before = nb})

\* variant: the condition not_before <= ? left out
SelectNextIgnoringTime(rs, room, t) ==
    LET el == {i \in Ids(rs) : rs[i].room_id = room /\ rs[i].status = "pending"}
    IN  IF el = {} THEN NULL
        ELSE LET nb == SetMin({rs[i].not_before : i \in el})
             IN  SetMin({i \in el : rs[i].not_before = nb})

\* claim_next: ORDER BY not_before ASC, id ASC LIMIT 1 (NULL: no row)
SelectNext(rs, room, t) ==
    LET el == Eligible(rs, room, t)
    IN  IF el = {} THEN NULL
        ELSE LET nb == SetMin({rs[i].not_before : i \in el})
             IN  SetMin({i \in el : rs[i].not_before = nb})

\* claim_next: UPDATE ... SET status='sending' WHERE id=? AND room_id=?
SetSending(rs, room, id) ==
    [i \in Ids(rs) |->
        IF i = id /\ rs[i].room_id = room
        THEN [rs[i] EXCEPT !.status = "sending"]
        ELSE rs[i]]

\* variant: MAX(not_before) in place of MIN(not_before)
NextAvailableDelayLatest(rs, room, t) ==
    LET pend == {i \in Ids(rs) : rs[i].room_id = room /\ rs[i].status = "pending"}
    IN  IF pend = {} THEN <<>>
        ELSE <<Max2(0, SetMax({rs[i].not_before : i \in pend}) - t)>>

\* next_available_delay: <<>> for None, else <<max(0, MIN(not_before) - now)>>
NextAvailableDelay(rs, room, t) ==
    LET pend == {i \in Ids(rs) : rs[i].room_id = room /\ rs[i].status = "pending"}
    IN  IF pend = {} THEN <<>>
        ELSE <<Max2(0, SetMin({rs[i].not_before : i \in pend}) - t)>>

\* mark_sent: UPDATE danmaku_queue SET status='sent', sent_at=ts
MarkSentRows(rs, room, id, ts) ==
    [i \in Ids(rs) |->
        IF i = id /\ rs[i].room_id = room
        THEN [rs[i] EXCEPT !.status = "sent", !.sent_at = ts]
        ELSE rs[i]]

\* variant: the UPDATE of danmaku_queue_meta left out
MarkSentMetaStale(meta, room, ts) == meta

\* mark_sent: UPDATE danmaku_queue_meta SET last_sent_at=ts
MarkSentMeta(meta, room, ts) ==
    [meta EXCEPT ![room] = ts]

\* variant: _compute_not_before(conn) without ts + interval_sec
RescheduleNoEarliest(rs, meta, room, interval, id, error, ts, t) ==
    LET nb == ComputeNotBefore(rs, meta, room, interval, t, <<>>)
    IN  [i \in Ids(rs) |->
            IF i = id /\ rs[i].room_id = room
            THEN [rs[i] EXCEPT !.status = "pending", !.not_before = nb,
                               !.last_error = error]
            ELSE rs[i]]

\* variant: the row given up, status='failed', instead of retried
RescheduleGivenUp(rs, meta, room, interval, id, error, ts, t) ==
    [i \in Ids(rs) |->
        IF i = id /\ rs[i].room_id = room
        THEN [rs[i] EXCEPT !.status = "failed", !.last_error = error]
        ELSE rs[i]]

\* variant: last_error=? left out of the UPDATE
RescheduleErrorDropped(rs, meta, room, interval, id, error, ts, t) ==
    LET nb == ComputeNotBefore(rs, meta, room, interval, t, <<ts + interval>>)
    IN  [i \in Ids(rs) |->
            IF i = id /\ rs[i].room_id = room
            THEN [rs[i] EXCEPT !.status = "pending", !.not_before = nb]
            ELSE rs[i]]

\* reschedule(msg_id, error=...), called at ts, its transaction run at t
Reschedule(rs, meta, room, interval, id, error, ts, t) ==
    LET nb == ComputeNotBefore(rs, meta, room, interval, t, <<ts + interval>>)
    IN  [i \in Ids(rs) |->
            IF i = id /\ rs[i].room_id = room
            THEN [rs[i] EXCEPT !.status = "pending", !.not_before = nb,
                               !.last_error = error]
            ELSE rs[i]]

\* mark_failed(msg_id, error)
MarkFailed(rs, room, id, error, ts) ==
    [i \in Ids(rs) |->
        IF i = id /\ rs[i].room_id = room
        THEN [rs[i] EXCEPT !.status = "failed", !.sent_at = ts, !.last_error = error]
        ELSE rs[i]]

\* _ensure_schema on an existing store: queue_schema.sql creates the two tables
\* if they are missing, the migrations add nothing to a current store and the
\* meta row exists; no statement rewrites a row
EnsureSchema(rs) == rs

\* ---- core/danmaku_sender.py ---------------------------------------------

\* msg before its first assignment, or msg = None
NoMsg == [id |-> NULL, not_before |-> NULL]

\* no backoff is open: no 'too fast' answer yet, or interval_sec has passed since
NoThrottle == [until |-> NULL, same_task |-> FALSE]

\* a task that is not running has no frame
NoFrame ==
    /\ pc' = "none"
    /\ msg' = NoMsg
    /\ wake' = NULL
    /\ exc' = "none"
    /\ throttled' = [throttled EXCEPT !.same_task = FALSE]

\* _ensure_queue_worker: create the task unless one exists and is not done
EnsureQueueWorker ==
    IF task = "running"
    THEN UNCHANGED <<task, pc, msg, wake, exc>>
    ELSE /\ task' = "running"
         /\ pc' = "claim"
         /\ msg' = NoMsg
         /\ wake' = NULL
         /\ exc' = "none"

\* _enqueue_or_send with a queue: enqueue, then _ensure_queue_worker
EnqueueOrSend ==
    /\ Len(rows) < MaxRows
    /\ rows' = EnqueueRow(rows, last_sent_at, ROOM, interval_sec, now)
    /\ hist_enq_nb' = Append(hist_enq_nb, rows'[Len(rows) + 1].not_before)
    /\ EnsureQueueWorker
    /\ UNCHANGED <<now, interval_sec, last_sent_at, faults, hist_resched, callerVars, throttled, otherVars>>

\* _queue_loop: msg = claim_next(); None -> the idle branch, else the send branch
WorkerClaim ==
    /\ task = "running" /\ pc = "claim"
    /\ LET id == SelectNext(rows, ROOM, now)
       IN  IF id = NULL
           THEN /\ msg' = NoMsg
                /\ pc' = "idle"
                /\ wake' = NULL
                /\ rows' = rows
           ELSE /\ msg' = [id |-> id, not_before |-> rows[id].not_before]
                /\ rows' = SetSending(rows, ROOM, id)
                /\ IF rows[id].not_before > now
                   THEN pc' = "sleep_window" /\ wake' = rows[id].not_before
                   ELSE pc' = "send" /\ wake' = NULL
    /\ UNCHANGED <<now, interval_sec, last_sent_at, task, exc, faults,
                   hist_enq_nb, hist_resched, callerVars, throttled, otherVars>>

\* claim_next raises (sqlite3.OperationalError); msg keeps its previous value
WorkerClaimError ==
    /\ task = "running" /\ pc = "claim"
    /\ faults < MaxFaults
    /\ faults' = faults + 1
    /\ pc' = "except"
    /\ exc' = "store"
    /\ UNCHANGED <<now, interval_sec, storeVars, task, msg, wake, callerVars, throttled, otherVars>>

\* _queue_loop, msg is None: sleep next_available_delay(), 1.0 when it is None
WorkerIdle ==
    /\ task = "running" /\ pc = "idle"
    /\ LET delay == NextAvailableDelay(rows, ROOM, now)
       IN  wake' = now + (IF delay = <<>> THEN 1 ELSE delay[1])
    /\ pc' = "sleep"
    /\ UNCHANGED <<now, interval_sec, storeVars, task, msg, exc, faults, callerVars, throttled, otherVars>>

\* next_available_delay raises; msg is None here
WorkerIdleError ==
    /\ task = "running" /\ pc = "idle"
    /\ faults < MaxFaults
    /\ faults' = faults + 1
    /\ pc' = "except"
    /\ exc' = "store"
    /\ UNCHANGED <<now, interval_sec, storeVars, task, msg, wake, callerVars, throttled, otherVars>>

\* asyncio.sleep returns
WorkerWake ==
    /\ task = "running" /\ pc \in {"sleep", "sleep_window"}
    /\ now >= wake
    /\ pc' = IF pc = "sleep_window" THEN "send" ELSE "claim"
    /\ wake' = NULL
    /\ UNCHANGED <<now, interval_sec, storeVars, task, msg, exc, faults, callerVars, throttled, otherVars>>

\* _send_direct returns; mark_sent(msg.id)
WorkerSendOk ==
    /\ task = "running" /\ pc = "send"
    /\ rows' = MarkSentRows(rows, ROOM, msg.id, now)
    /\ last_sent_at' = MarkSentMeta(last_sent_at, ROOM, now)
    /\ pc' = "claim"
    /\ UNCHANGED <<now, interval_sec, task, msg, wake, exc, faults,
                   hist_enq_nb, hist_resched, callerVars, throttled, otherVars>>

\* _send_direct returns; mark_sent raises outside the try: the task ends
WorkerMarkSentError ==
    /\ task = "running" /\ pc = "send"
    /\ faults < MaxFaults
    /\ faults' = faults + 1
    /\ task' = "done"
    /\ NoFrame
    /\ UNCHANGED <<now, interval_sec, storeVars, callerVars, otherVars>>

\* _send_direct raises, after its one truncated retry if the first answer was
\* code 1003212: ResponseCodeException 10030 ("too_fast"), any other
\* ResponseCodeException ("rejected"), any other Exception ("error")
WorkerSendRaises ==
    /\ task = "running" /\ pc = "send"
    /\ \E e \in {"too_fast", "rejected", "error"} :
          /\ exc' = e
          /\ throttled' = IF e = "too_fast"
                          THEN [until |-> now + interval_sec, same_task |-> TRUE]
                          ELSE throttled
    /\ pc' = "except"
    /\ UNCHANGED <<now, interval_sec, storeVars, task, msg, wake, faults, callerVars, otherVars>>

\* variant: continue without sleeping
BackoffDelayNone(interval) == 0

\* await asyncio.sleep(self._queue.interval_sec) of the 'too fast' handler
BackoffDelay(interval) == interval

\* except ResponseCodeException, code 10030: reschedule, sleep interval_sec, continue
\* (self._queue_task.cancelled() is false while the task itself is running)
HandleTooFast ==
    /\ task = "running" /\ pc = "except" /\ exc = "too_fast"
    /\ rows' = Reschedule(rows, last_sent_at, ROOM, interval_sec, msg.id, exc, now, now)
    /\ hist_resched' = hist_resched \cup {msg.id}
    /\ exc' = "none"
    /\ pc' = "sleep"
    /\ wake' = now + BackoffDelay(interval_sec)
    /\ UNCHANGED <<now, interval_sec, last_sent_at, task, msg, faults,
                   hist_enq_nb, callerVars, throttled, otherVars>>

\* except ResponseCodeException, any other code: mark_failed, continue
HandleRejected ==
    /\ task = "running" /\ pc = "except" /\ exc = "rejected"
    /\ rows' = MarkFailed(rows, ROOM, msg.id, exc, now)
    /\ exc' = "none"
    /\ pc' = "claim"
    /\ UNCHANGED <<now, interval_sec, last_sent_at, task, msg, wake, faults,
                   hist_enq_nb, hist_resched, callerVars, throttled, otherVars>>

\* except Exception: reschedule(msg.id, error=str(exc)); continue
HandleException ==
    /\ task = "running" /\ pc = "except" /\ exc \in {"error", "store"}
    /\ msg.id # NULL
    /\ rows' = Reschedule(rows, last_sent_at, ROOM, interval_sec, msg.id, exc, now, now)
    /\ hist_resched' = hist_resched \cup {msg.id}
    /\ exc' = "none"
    /\ pc' = "claim"
    /\ UNCHANGED <<now, interval_sec, last_sent_at, task, msg, wake, faults,
                   hist_enq_nb, callerVars, throttled, otherVars>>

\* except Exception with msg unbound or None: msg.id raises inside the handler
\* and the task ends
HandleExceptionNoMsg ==
    /\ task = "running" /\ pc = "except" /\ exc \in {"error", "store"}
    /\ msg.id = NULL
    /\ task' = "done"
    /\ NoFrame
    /\ UNCHANGED <<now, interval_sec, storeVars, faults, callerVars, otherVars>>

\* the process ends and starts again: a new DanmakuSender over the same store,
\* whose DanmakuQueue.__init__ runs _ensure_schema
ProcessRestart ==
    /\ task # "none"
    /\ task' = "none"
    /\ NoFrame
    /\ rows' = EnsureSchema(rows)
    /\ UNCHANGED <<now, interval_sec, last_sent_at, hist_enq_nb, hist_resched, faults,
                   callerVars, otherVars>>

\* the wall clock advances
Tick ==
    /\ now < MaxTime
    /\ now' = now + 1
    /\ throttled' = IF now + 1 >= throttled.until THEN NoThrottle ELSE throttled
    /\ UNCHANGED <<interval_sec, storeVars, workerVars, callerVars, otherVars>>

\* ---- core/danmaku_sender.py: _send_direct --------------------------------

\* the characters of a message
Chars == {"a", "b"}

\* the non-empty messages _enqueue_or_send and the queue hand to _send_direct
Messages == UNION {[1 .. n -> Chars] : n \in 1 .. MaxLen}

\* the answers of room.send_danmaku: a return, ResponseCodeException 1003212
\* ("too_long"), 10030 ("too_fast"), any other code ("rejected"), any other
\* exception ("error")
Replies == {"ok", "too_long", "too_fast", "rejected", "error"}

\* variant: max_length taken as it is, also when it is 0
FallbackLimitNoDefault(m, limit) == Max2(1, limit - 1)

\* fallback_limit = max(1, (self.max_length or len(message)) - 1)
FallbackLimit(m, limit) == Max2(1, (IF limit # 0 THEN limit ELSE Len(m)) - 1)

\* fallback = message[:fallback_limit]
Fallback(m, limit) ==
    SubSeq(m, 1, IF FallbackLimit(m, limit) < Len(m) THEN FallbackLimit(m, limit)
                 ELSE Len(m))

\* no _send_direct call is under way
NoSendDirect ==
    /\ message = <<>>
    /\ max_length = 0
    /\ send_pc = "idle"
    /\ attempts = <<>>
    /\ replies = <<>>

\* DanmakuSender.__init__: _queue_task = None, _queue_lock = asyncio.Lock(), and
\* no _enqueue_or_send call under way
NewSender ==
    /\ queue_lock = "free"
    /\ queue_task = NULL
    /\ loop_tasks = <<>>
    /\ epc = [c \in Callers |-> "idle"]

\* the calendar days of the timestamps
Days == {t \div DayLen : t \in Timestamps}

\* a parser returns None (also: no call yet)
NoEvent == <<>>

NoParse == parsed = NoEvent

\* a sender on which _enqueue_or_send was not called yet
NoOutlet ==
    outlet = [queue |-> FALSE, stored |-> <<>>, sent |-> <<>>, worker |-> FALSE,
              calls |-> 0, blank |-> FALSE]

\* no call yet on a store shared by several rooms
NoRoomOp == last_op = [room |-> NULL, op |-> "none", id |-> NULL, n |-> 0]

\* IngestPipeline.__init__: _thanks_day = None, _threshold_hits = {},
\* _user_day_thanks = {}
NewThanks ==
    /\ thanks_day = NoDay
    /\ threshold_hits = [u \in Actors |-> 0]
    /\ user_day_thanks = [u \in Actors |-> 0]
    /\ true_total = [u \in Actors |-> [d \in Days |-> 0]]
    /\ fire_count = [u \in Actors |-> [d \in Days |-> 0]]
    /\ settings_rest = 0

\* ---- core/rule_engine.py -------------------------------------------------

\* gift names as they are written in a configuration or carried by an event:
\* padded, in another case, or empty
RawGiftNames == {"Star", " star ", "STAR", "Moon", ""}

\* gift ids, 0 for an event without one
GiftIds == 0 .. MaxGiftId

\* _normalize_gift_name: NFKC, strip, casefold ("" for None)
NormalizeGiftName(name) ==
    CASE name \in {"Star", " star ", "STAR", "star"} -> "star"
      [] name \in {"Moon", "moon"} -> "moon"
      [] OTHER -> ""

\* build_rule: the names normalized and the empty ones dropped, the falsy ids dropped
BuildRule(names, ids, min) ==
    [target_gift_names |-> {NormalizeGiftName(g) : g \in names} \ {""},
     target_gift_ids |-> {i \in ids : i # 0},
     min_num |-> min]

\* GiftRule.is_target_gift(gift)
IsTargetGift(r, gift) ==
    LET name_hit == /\ r.target_gift_names # {}
                    /\ NormalizeGiftName(gift.gift_name) \in r.target_gift_names
        id_hit == /\ r.target_gift_ids # {}
                  /\ gift.gift_id # 0
                  /\ gift.gift_id \in r.target_gift_ids
    IN  name_hit \/ id_hit

\* variant: the quantity threshold not applied
HitAnyNum(r, gift) == IsTargetGift(r, gift)

\* GiftRule.hit(gift)
Hit(r, gift) ==
    IF gift.num < r.min_num THEN FALSE ELSE IsTargetGift(r, gift)

\* build_rule(target_gift_names, target_gift_ids, min_num), no gift judged yet
NewGiftRule(names, ids, min) ==
    /\ rule = BuildRule(names, ids, min)
    /\ checked = <<>>

\* RateLimiter(global_cooldown_sec=g, per_user_cooldown_sec=p, per_user_daily_limit=l)
NewRateLimiter(g, p, l) ==
    /\ global_cooldown_sec = g
    /\ per_user_cooldown_sec = p
    /\ per_user_daily_limit = l
    /\ last_global_ts = 0
    /\ last_user_ts = [u \in Actors |-> 0]
    /\ user_day = [u \in Actors |-> NoDay]
    /\ user_day_count = [u \in Actors |-> 0]
    /\ allow_log = <<>>

\* DailyGiftCounter()
NewDailyGiftCounter ==
    /\ current_day = NoDay
    /\ counts = [u \in Actors |-> 0]
    /\ add_log = <<>>

\* IngestPipeline(settings, rule, limiter, sender)
NewIngestPipeline(sender) ==
    /\ clock = 1
    /\ sender_set = sender
    /\ pending_thanks = [u \in Actors |-> <<>>]
    /\ flush_tasks = {}
    /\ outbox = <<>>
    /\ handled = 0
    /\ sink = <<>>
    /\ last_kind = "none"
    /\ last_raised = NULL
    /\ agg_first = [u \in Actors |-> NULL]

\* _ensure_schema on a new store: no rows, the room's meta row with last_sent_at 0
NewStore ==
    /\ now = 1
    /\ rows = <<>>
    /\ last_sent_at = [r \in {ROOM} |-> 0]
    /\ task = "none"
    /\ pc = "none"
    /\ msg = NoMsg
    /\ wake = NULL
    /\ exc = "none"
    /\ faults = 0
    /\ hist_enq_nb = <<>>
    /\ hist_resched = {}
    /\ db_lock = "free"
    /\ cpc = [c \in Callers |-> "idle"]
    /\ cnow = [c \in Callers |-> NULL]
    /\ crow = [c \in Callers |-> NULL]
    /\ returned = [c \in Callers |-> {}]
    /\ throttled = NoThrottle

\* a sender over a new store, with queue_interval_sec 0 or the default
Init ==
    /\ interval_sec \in {InitInterval(i) : i \in {0, DEFAULT_INTERVAL_SEC}}
    /\ NewStore
    /\ NewRateLimiter(0, 0, 0)
    /\ NewDailyGiftCounter
    /\ NoSendDirect
    /\ NewSender
    /\ NewThanks
    /\ NoRoomOp
    /\ NoParse
    /\ NoOutlet
    /\ NewIngestPipeline(FALSE)
    /\ NewGiftRule({}, {}, 1)

\* the worker loop with every store call succeeding
Next ==
    \/ EnqueueOrSend
    \/ WorkerClaim
    \/ WorkerIdle
    \/ WorkerWake
    \/ WorkerSendOk
    \/ WorkerSendRaises
    \/ HandleTooFast
    \/ HandleRejected
    \/ HandleException
    \/ ProcessRestart
    \/ Tick

Spec == Init /\ [][Next]_vars

\* asyncio runs every task that can run and the clock advances; nothing obliges
\* the sender's callers to enqueue again, or the process to restart
WorkerFairness ==
    /\ WF_vars(WorkerClaim)
    /\ WF_vars(WorkerIdle)
    /\ WF_vars(WorkerWake)
    /\ WF_vars(WorkerSendOk \/ WorkerSendRaises)
    /\ WF_vars(HandleTooFast)
    /\ WF_vars(HandleRejected)
    /\ WF_vars(HandleException)
    /\ WF_vars(Tick)

SpecLive == Init /\ [][Next]_vars /\ WorkerFairness

\* the worker loop with store calls that may raise, at most MaxFaults times
NextStoreErrors ==
    \/ EnqueueOrSend
    \/ WorkerClaim
    \/ WorkerClaimError
    \/ WorkerIdle
    \/ WorkerIdleError
    \/ WorkerWake
    \/ WorkerSendOk
    \/ WorkerMarkSentError
    \/ WorkerSendRaises
    \/ HandleTooFast
    \/ HandleRejected
    \/ HandleException
    \/ HandleExceptionNoMsg
    \/ ProcessRestart
    \/ Tick

SpecStoreErrors == Init /\ [][NextStoreErrors]_vars

\* ---- claim_next under concurrent callers ---------------------------------
\* Each caller runs claim_next statement by statement on its own connection;
\* BEGIN IMMEDIATE takes sqlite's write lock and COMMIT gives it back.

\* variant: a plain BEGIN, which takes no lock
BeginDeferred(lock) == TRUE

\* conn.execute("BEGIN IMMEDIATE") succeeds only while no other connection
\* holds the write lock
BeginImmediate(lock) == lock = "free"

\* now = time.time()
ClaimCall(c) ==
    /\ cpc[c] = "idle"
    /\ cnow' = [cnow EXCEPT ![c] = now]
    /\ cpc' = [cpc EXCEPT ![c] = "begin"]
    /\ UNCHANGED <<now, interval_sec, storeVars, workerVars, db_lock, crow, returned, throttled, otherVars>>

\* BEGIN IMMEDIATE
ClaimBegin(c) ==
    /\ cpc[c] = "begin"
    /\ BeginImmediate(db_lock)
    /\ db_lock' = c
    /\ cpc' = [cpc EXCEPT ![c] = "select"]
    /\ UNCHANGED <<now, interval_sec, storeVars, workerVars, cnow, crow, returned, throttled, otherVars>>

\* SELECT ... ORDER BY not_before ASC, id ASC LIMIT 1
ClaimSelect(c) ==
    /\ cpc[c] = "select"
    /\ crow' = [crow EXCEPT ![c] = SelectNext(rows, ROOM, cnow[c])]
    /\ cpc' = [cpc EXCEPT ![c] = IF crow'[c] = NULL THEN "commit" ELSE "update"]
    /\ UNCHANGED <<now, interval_sec, storeVars, workerVars, db_lock, cnow, returned, throttled, otherVars>>

\* UPDATE danmaku_queue SET status='sending' WHERE id=? AND room_id=?
ClaimUpdate(c) ==
    /\ cpc[c] = "update"
    /\ rows' = SetSending(rows, ROOM, crow[c])
    /\ cpc' = [cpc EXCEPT ![c] = "commit"]
    /\ UNCHANGED <<now, interval_sec, last_sent_at, hist_enq_nb, hist_resched,
                   workerVars, db_lock, cnow, crow, returned, throttled, otherVars>>

\* conn.commit(); return None or the QueueMessage
ClaimCommit(c) ==
    /\ cpc[c] = "commit"
    /\ db_lock' = "free"
    /\ returned' = [returned EXCEPT ![c] =
                        IF crow[c] = NULL THEN @ ELSE @ \cup {crow[c]}]
    /\ crow' = [crow EXCEPT ![c] = NULL]
    /\ cpc' = [cpc EXCEPT ![c] = "idle"]
    /\ UNCHANGED <<now, interval_sec, storeVars, workerVars, cnow, throttled, otherVars>>

\* enqueue from another connection: BEGIN IMMEDIATE ... INSERT ... COMMIT
StoreEnqueue ==
    /\ Len(rows) < MaxRows
    /\ BeginImmediate(db_lock)
    /\ rows' = EnqueueRow(rows, last_sent_at, ROOM, interval_sec, now)
    /\ hist_enq_nb' = Append(hist_enq_nb, rows'[Len(rows) + 1].not_before)
    /\ UNCHANGED <<now, interval_sec, last_sent_at, hist_resched, workerVars, callerVars, throttled, otherVars>>

NextClaim ==
    \/ StoreEnqueue
    \/ Tick
    \/ \E c \in Callers : ClaimCall(c)
    \/ \E c \in Callers : ClaimBegin(c)
    \/ \E c \in Callers : ClaimSelect(c)
    \/ \E c \in Callers : ClaimUpdate(c)
    \/ \E c \in Callers : ClaimCommit(c)

SpecClaim == Init /\ [][NextClaim]_vars

\* ---- core/rate_limiter.py -----------------------------------------------

\* now = ts or time.time(): a ts of 0 (or None) is replaced by the wall clock
AllowNow(ts, wall) == IF ts # 0 THEN ts ELSE wall

\* _day_key: the local calendar day of a timestamp, days numbered
DayKey(t) == t \div DayLen

\* variant: the cooldown comparison left out
InCooldownNever(t, last, cooldown) == FALSE

\* cooldown > 0 and (now - last) < cooldown
InCooldown(t, last, cooldown) == cooldown > 0 /\ (t - last) < cooldown

\* variant: the stored count kept when the day has changed
DailyCountKept(uid, day) == user_day_count[uid]

\* daily_count: the stored count, 0 if the stored day is another day
DailyCount(uid, day) == IF user_day[uid] # day THEN 0 ELSE user_day_count[uid]

\* per_user_daily_limit > 0 and daily_count >= per_user_daily_limit
QuotaReached(count, limit) == limit > 0 /\ count >= limit

\* the value allow returns for (uid, now, ignore_cooldown)
AllowResult(uid, t, ignore_cooldown) ==
    /\ ignore_cooldown
        \/ /\ ~InCooldown(t, last_global_ts, global_cooldown_sec)
           /\ ~InCooldown(t, last_user_ts[uid], per_user_cooldown_sec)
    /\ ~QuotaReached(DailyCount(uid, DayKey(t)), per_user_daily_limit)

\* RateLimiter.allow(uid, ts, ignore_cooldown)
Allow(uid, ts, ignore_cooldown, wall) ==
    LET t == AllowNow(ts, wall)
        ok == AllowResult(uid, t, ignore_cooldown)
    IN  /\ Len(allow_log) < MaxCalls
        /\ allow_log' = Append(allow_log, [uid |-> uid, now |-> t,
                                           ignore |-> ignore_cooldown, ok |-> ok])
        /\ IF ok
           THEN /\ last_global_ts' = t
                /\ last_user_ts' = [last_user_ts EXCEPT ![uid] = t]
                /\ user_day' = [user_day EXCEPT ![uid] = DayKey(t)]
                /\ user_day_count' = [user_day_count EXCEPT
                                         ![uid] = DailyCount(uid, DayKey(t)) + 1]
           ELSE UNCHANGED <<last_global_ts, last_user_ts, user_day, user_day_count>>
        /\ UNCHANGED <<global_cooldown_sec, per_user_cooldown_sec, per_user_daily_limit,
                       queueVars, counterVars, pipeVars, ruleVars, sendVars, ensureVars, thanksVars, roomVars, parserVars, outletVars>>

\* a limiter with each setting 0 (off) or positive, and nothing else running
InitLimiter ==
    /\ interval_sec = InitInterval(DEFAULT_INTERVAL_SEC)
    /\ NewStore
    /\ \E g \in {0, MaxCooldown} : \E p \in {0, MaxCooldown} : \E l \in {0, MaxDaily} :
          NewRateLimiter(g, p, l)
    /\ NewDailyGiftCounter
    /\ NoSendDirect
    /\ NewSender
    /\ NewThanks
    /\ NoRoomOp
    /\ NoParse
    /\ NoOutlet
    /\ NewIngestPipeline(FALSE)
    /\ NewGiftRule({}, {}, 1)

\* the wall clock is read only when ts is 0
NextLimiter ==
    \E uid \in Actors : \E ts \in Timestamps \cup {0} : \E ig \in BOOLEAN :
        \E wall \in (IF ts = 0 THEN Timestamps ELSE {ts}) : Allow(uid, ts, ig, wall)

SpecLimiter == InitLimiter /\ [][NextLimiter]_vars

\* ---- core/rule_engine.py: DailyGiftCounter -------------------------------

\* the amounts passed to add, negative ones included
Amounts == (0 - 1) .. MaxAmount

\* max(amount, 0)
ClampAmount(amount) == Max2(amount, 0)

\* variant: the counts kept when the day changes
CountsForDayKept(cs, cur, day) == cs

\* if day != self._current_day: self._counts = {}
CountsForDay(cs, cur, day) == IF day # cur THEN [u \in Actors |-> 0] ELSE cs

\* DailyGiftCounter.add(key, amount, ts), returning (day, total)
Add(key, amount, ts) ==
    LET day == DayKey(ts)
        cs == CountsForDay(counts, current_day, day)
        total == cs[key] + ClampAmount(amount)
    IN  /\ Len(add_log) < MaxCalls
        /\ current_day' = day
        /\ counts' = [cs EXCEPT ![key] = total]
        /\ add_log' = Append(add_log, [key |-> key, amount |-> amount,
                                       day |-> day, total |-> total])
        /\ UNCHANGED <<queueVars, limiterVars, pipeVars, ruleVars, sendVars, ensureVars, thanksVars, roomVars, parserVars, outletVars>>

\* a new counter, and nothing else running
InitCounter ==
    /\ interval_sec = InitInterval(DEFAULT_INTERVAL_SEC)
    /\ NewStore
    /\ NewRateLimiter(0, 0, 0)
    /\ NewDailyGiftCounter
    /\ NoSendDirect
    /\ NewSender
    /\ NewThanks
    /\ NoRoomOp
    /\ NoParse
    /\ NoOutlet
    /\ NewIngestPipeline(FALSE)
    /\ NewGiftRule({}, {}, 1)

NextCounter ==
    \E key \in Actors : \E amount \in Amounts : \E ts \in Timestamps :
        Add(key, amount, ts)

SpecCounter == InitCounter /\ [][NextCounter]_vars

\* ---- services/ingest_pipeline.py ----------------------------------------
\* An event is one of three kinds: "none" (DANMU_MSG, an ignored cmd, or the
\* parser returns None), "base" (a GiftEvent whose gift_name is
\* settings.blind_box_base_gift) and "gift" (any other GiftEvent).  Whether the
\* gift is thanked (rule, threshold or value, limiter: lines 189-213) is the
\* input decide; the sender's own state is the queue above, here only its calls
\* are recorded.

\* gift.num or 1
NumOrOne(num) == IF num = 0 THEN 1 ELSE num

\* PendingThanks(uname): no gifts yet
NoGifts == [g \in GiftNames |-> 0]

\* variant: the record written only after the notification steps
SinkAfterEventNotifyFirst(s, id, kind, sender, raises) ==
    IF kind = "gift" /\ ~raises THEN Append(s, id) ELSE s

\* variant: the record written only when a sender is configured
SinkAfterEventWithSender(s, id, kind, sender, raises) ==
    IF kind = "gift" /\ sender THEN Append(s, id) ELSE s

\* handle_event up to insert_gift: only a GiftEvent that is not the blind-box
\* base gift is inserted, before self.sender is looked at and before any send
SinkAfterEvent(s, id, kind, sender, raises) ==
    IF kind = "gift" THEN Append(s, id) ELSE s

\* _refresh_settings: on a changed snapshot _pending_thanks = {}
RefreshedPending(pend, changed) ==
    IF changed THEN [u \in Actors |-> <<>>] ELSE pend

\* _refresh_sender: None without credentials, else the sender kept or made
RefreshedSender(sender, changed, credentials) ==
    IF changed THEN credentials ELSE sender

\* _buffer_thanks: pending.gifts[gift.gift_name] += gift.num or 1
BufferedPending(pend, key, name, num) ==
    LET gifts == IF pend[key] = <<>> THEN NoGifts ELSE pend[key][1]
    IN  [pend EXCEPT ![key] = <<[gifts EXCEPT ![name] = @ + NumOrOne(num)]>>]

\* _buffer_thanks: a new PendingThanks gets a task sleeping THANK_DELAY_SECONDS
BufferedTasks(tasks, pend, key, t) ==
    IF pend[key] = <<>>
    THEN tasks \cup {[id |-> handled + 1, key |-> key, wake |-> t + THANK_DELAY_SECONDS]}
    ELSE tasks

\* handle_event(event)
HandleEvent(kind, changed, credentials, guard, decide, key, name, num) ==
    LET id == handled + 1
        pend0 == RefreshedPending(pending_thanks, changed)
        sender0 == RefreshedSender(sender_set, changed, credentials)
        notifies == kind = "gift" /\ sender0
        raises == notifies /\ guard = "raises"
        buffers == notifies /\ ~raises /\ decide
    IN  /\ handled < MaxEvents
        /\ handled' = id
        /\ sender_set' = sender0
        /\ last_kind' = kind
        /\ last_raised' = IF raises THEN id ELSE last_raised
        /\ sink' = SinkAfterEvent(sink, id, kind, sender0, raises)
        /\ pending_thanks' = IF buffers THEN BufferedPending(pend0, key, name, num)
                             ELSE pend0
        /\ flush_tasks' = IF buffers THEN BufferedTasks(flush_tasks, pend0, key, clock)
                          ELSE flush_tasks
        /\ agg_first' = [u \in Actors |->
                            IF buffers /\ u = key /\ pend0[u] = <<>> THEN clock
                            ELSE IF pending_thanks'[u] = <<>> THEN NULL
                            ELSE agg_first[u]]
        /\ UNCHANGED <<clock, outbox, queueVars, limiterVars, counterVars, ruleVars, sendVars, ensureVars, thanksVars, roomVars, parserVars, outletVars>>

\* _flush_thanks_after_delay(key) once its sleep is over: pop the key's pending
\* aggregate and hand it to send_summary_thanks (an exception of which is logged)
FlushThanks(t) ==
    /\ t \in flush_tasks
    /\ clock >= t.wake
    /\ flush_tasks' = flush_tasks \ {t}
    /\ pending_thanks' = [pending_thanks EXCEPT ![t.key] = <<>>]
    /\ outbox' = IF /\ pending_thanks[t.key] # <<>>
                    /\ pending_thanks[t.key][1] # NoGifts
                    /\ sender_set
                 THEN Append(outbox, [key |-> t.key, gifts |-> pending_thanks[t.key][1]])
                 ELSE outbox
    /\ agg_first' = [agg_first EXCEPT ![t.key] = NULL]
    /\ UNCHANGED <<clock, sender_set, handled, sink, last_kind, last_raised,
                   queueVars, limiterVars, counterVars, ruleVars, sendVars, ensureVars, thanksVars, roomVars, parserVars, outletVars>>

\* time passes
ClockTick ==
    /\ clock < MaxClock
    /\ clock' = clock + 1
    /\ UNCHANGED <<sender_set, pending_thanks, flush_tasks, outbox, handled, sink,
                   last_kind, last_raised, agg_first,
                   queueVars, limiterVars, counterVars, ruleVars, sendVars, ensureVars, thanksVars, roomVars, parserVars, outletVars>>

\* a pipeline with or without a sender, and nothing else running
InitPipeline ==
    /\ interval_sec = InitInterval(DEFAULT_INTERVAL_SEC)
    /\ NewStore
    /\ NewRateLimiter(0, 0, 0)
    /\ NewDailyGiftCounter
    /\ NoSendDirect
    /\ NewSender
    /\ NewThanks
    /\ NoRoomOp
    /\ NoParse
    /\ NoOutlet
    /\ \E sender \in BOOLEAN : NewIngestPipeline(sender)
    /\ NewGiftRule({}, {}, 1)

\* an event that is no GiftEvent, or the blind-box base gift
HandleOther ==
    \E kind \in {"none", "base"} : \E changed \in BOOLEAN :
    \E credentials \in (IF changed THEN BOOLEAN ELSE {sender_set}) :
        HandleEvent(kind, changed, credentials, "no", FALSE, "A", "Star", 1)

\* a gift that is not thanked; a GUARD_BUY may be, and that send may raise
HandleGiftOnly ==
    \E changed \in BOOLEAN :
    \E credentials \in (IF changed THEN BOOLEAN ELSE {sender_set}) :
    \E guard \in {"no", "ok", "raises"} :
        HandleEvent("gift", changed, credentials, guard, FALSE, "A", "Star", 1)

\* a gift that passes the rule and the limiter
HandleGiftThanked ==
    \E changed \in BOOLEAN :
    \E credentials \in (IF changed THEN BOOLEAN ELSE {sender_set}) :
    \E key \in Actors : \E name \in GiftNames : \E num \in Nums :
        HandleEvent("gift", changed, credentials, "no", TRUE, key, name, num)

NextPipeline ==
    \/ HandleOther
    \/ HandleGiftOnly
    \/ HandleGiftThanked
    \/ \E t \in flush_tasks : FlushThanks(t)
    \/ ClockTick

SpecPipeline == InitPipeline /\ [][NextPipeline]_vars

\* ---- properties ---------------------------------------------------------

\* C1: the not_before values that enqueue assigns are non-decreasing in id order.
EnqueueNotBeforeNonDecreasing ==
    \A i \in DOMAIN hist_enq_nb : \A j \in DOMAIN hist_enq_nb :
        i < j => hist_enq_nb[i] <= hist_enq_nb[j]

\* three enqueues, the later ones scheduled behind the earlier ones
WitnessEnqueueSequence ==
    /\ Len(hist_enq_nb) >= 3
    /\ hist_enq_nb[1] < hist_enq_nb[2]
    /\ hist_enq_nb[2] < hist_enq_nb[3]

\* C2: any two successful sends of the room are at least interval_sec apart.
PacingBetweenSends ==
    \A i \in Ids(rows) : \A j \in Ids(rows) :
        (i # j /\ rows[i].status = "sent" /\ rows[j].status = "sent")
            => \/ rows[i].sent_at - rows[j].sent_at >= interval_sec
               \/ rows[j].sent_at - rows[i].sent_at >= interval_sec

\* C3: at most one row of the room is 'sending'.
AtMostOneSending ==
    Cardinality({i \in Ids(rows) : rows[i].room_id = ROOM /\ rows[i].status = "sending"}) <= 1

\* C4: under concurrent claim_next callers every 'sending' row was claimed by
\* exactly one call, every other row by none, and no row is returned twice.
ClaimedByExactlyOne ==
    /\ \A i \in Ids(rows) :
          Cardinality({c \in Callers : \/ i \in returned[c]
                                       \/ (cpc[c] = "commit" /\ crow[c] = i)})
            = IF rows[i].status = "sending" THEN 1 ELSE 0
    /\ \A c \in Callers : \A d \in Callers :
          c # d => returned[c] \cap returned[d] = {}

\* both callers have claimed a row, one of them while the other was mid-call
WitnessConcurrentClaims ==
    /\ \A c \in Callers : returned[c] # {}
    /\ \E c \in Callers : cpc[c] \in {"begin", "select", "update", "commit"}

\* C5: claim_next returns the eligible pending row least in (not_before, id),
\* sets that row and no other to 'sending', and returns None and changes nothing
\* when no pending row has not_before <= now.
ClaimNextTakesOldestEligible ==
    [][(task = "running" /\ pc = "claim" /\ pc' \in {"idle", "send", "sleep_window"})
        => LET el == {i \in Ids(rows) : /\ rows[i].room_id = ROOM
                                        /\ rows[i].status = "pending"
                                        /\ rows[i].not_before <= now}
           IN  IF el = {}
               THEN /\ msg' = NoMsg
                    /\ rows' = rows
                    /\ last_sent_at' = last_sent_at
               ELSE \E i \in el :
                       /\ \A j \in el : \/ rows[i].not_before < rows[j].not_before
                                        \/ (rows[i].not_before = rows[j].not_before /\ i <= j)
                       /\ msg' = [id |-> i, not_before |-> rows[i].not_before]
                       /\ msg'.not_before <= now
                       /\ DOMAIN rows' = DOMAIN rows
                       /\ rows'[i] = [rows[i] EXCEPT !.status = "sending"]
                       /\ \A k \in Ids(rows) : k # i => rows'[k] = rows[k]
                       /\ last_sent_at' = last_sent_at]_vars

\* a row was claimed while a later pending row was eligible too
WitnessClaimAmongEligible ==
    /\ task = "running" /\ pc = "send"
    /\ rows[msg.id].status = "sending"
    /\ \E j \in Ids(rows) : /\ j # msg.id
                            /\ rows[j].status = "pending"
                            /\ rows[j].not_before <= now

\* C6: enqueue appends one 'pending' row with not_before =
\* max(now, M + interval, last_sent_at + interval), M the largest not_before of
\* the room's pending or sending rows; a term with nothing behind it is dropped.
EnqueueNotBeforeFormula ==
    [][Len(rows') = Len(rows) + 1
        => LET n == Len(rows) + 1
               load == {i \in Ids(rows) : /\ rows[i].room_id = ROOM
                                          /\ rows[i].status \in {"pending", "sending"}}
               terms == {now}
                        \cup {rows[i].not_before + interval_sec : i \in load}
                        \cup (IF last_sent_at[ROOM] # 0
                              THEN {last_sent_at[ROOM] + interval_sec} ELSE {})
           IN  /\ rows'[n].status = "pending"
               /\ rows'[n].room_id = ROOM
               /\ rows'[n].not_before \in terms
               /\ \A t \in terms : t <= rows'[n].not_before
               /\ \A k \in Ids(rows) : rows'[k] = rows[k]
               /\ last_sent_at' = last_sent_at]_vars

\* queue empty, pacing 3, last_sent_at = T, now = T + 1: the new row is due at T + 3
WitnessEnqueueAfterSend ==
    /\ interval_sec = 3
    /\ Len(rows) >= 2
    /\ \A i \in Ids(rows) : i < Len(rows) => rows[i].status = "sent"
    /\ now = last_sent_at[ROOM] + 1
    /\ rows[Len(rows)].status = "pending"
    /\ rows[Len(rows)].not_before = last_sent_at[ROOM] + 3
    /\ hist_enq_nb[Len(rows)] = last_sent_at[ROOM] + 3

\* C7 as stated: not_before is non-decreasing in id order over all rows.
NotBeforeNonDecreasingInId ==
    \A i \in Ids(rows) : \A j \in Ids(rows) :
        i < j => rows[i].not_before <= rows[j].not_before

\* C7 amended: a row that was never rescheduled has a not_before no larger than
\* that of any row with a larger id.
NotBeforeNonDecreasingUnlessRescheduled ==
    \A i \in Ids(rows) : \A j \in Ids(rows) :
        (i < j /\ i \notin hist_resched) => rows[i].not_before <= rows[j].not_before

\* rows that were sent, failed and rescheduled, in one store
WitnessMixedHistory ==
    /\ \E i \in Ids(rows) : rows[i].status = "sent"
    /\ \E i \in Ids(rows) : rows[i].status = "failed"
    /\ \E i \in Ids(rows) : i \in hist_resched /\ rows[i].status = "pending"
    /\ \E i \in Ids(rows) : \E j \in Ids(rows) :
          i < j /\ i \notin hist_resched /\ j \in hist_resched

\* C8: as long as nothing has been rescheduled, rows are claimed and delivered
\* in ascending id: a row is claimed only when every smaller id has been claimed
\* and no larger one has, and is delivered while every larger id is still pending.
FifoWithoutReschedule ==
    [][hist_resched' = {}
        => \A i \in Ids(rows) :
              /\ (rows[i].status = "pending" /\ rows'[i].status = "sending")
                    => /\ \A j \in Ids(rows) : j < i => rows[j].status # "pending"
                       /\ \A j \in Ids(rows) : j > i => rows[j].status = "pending"
              /\ (rows[i].status = "sending" /\ rows'[i].status = "sent")
                    => \A j \in Ids(rows) : j > i => rows[j].status = "pending"]_vars

\* two rows delivered one after the other, nothing rescheduled
WitnessFifoDelivered ==
    /\ hist_resched = {}
    /\ Len(rows) >= 3
    /\ rows[1].status = "sent"
    /\ rows[2].status = "sent"
    /\ rows[3].status = "sending"

\* C9: reschedule on a 'sending' row makes it 'pending' with not_before at least
\* interval_sec after the call, stores the error in last_error and changes
\* nothing else of the row, of other rows or of the meta row.
RescheduleEffect ==
    [][(/\ task = "running" /\ pc = "except" /\ pc' \in {"sleep", "claim"}
        /\ exc \in {"too_fast", "error", "store"}
        /\ msg.id # NULL
        /\ rows[msg.id].status = "sending")
        => /\ DOMAIN rows' = DOMAIN rows
           /\ rows'[msg.id].status = "pending"
           /\ rows'[msg.id].not_before >= now + interval_sec
           /\ rows'[msg.id].last_error = exc
           /\ rows'[msg.id].sent_at = rows[msg.id].sent_at
           /\ rows'[msg.id].room_id = rows[msg.id].room_id
           /\ \A k \in Ids(rows) : k # msg.id => rows'[k] = rows[k]
           /\ last_sent_at' = last_sent_at
           /\ SelectNext(rows', ROOM, rows'[msg.id].not_before) # NULL]_vars

\* a throttled row, rescheduled and then claimed again
WitnessRescheduledThenClaimed ==
    \E i \in Ids(rows) : /\ i \in hist_resched
                         /\ rows[i].status = "sending"
                         /\ rows[i].last_error = "too_fast"
                         /\ rows[i].not_before > hist_enq_nb[i]

\* C10: a row that is 'failed' stays 'failed' in every later state.
FailedIsTerminal ==
    [][\A i \in Ids(rows) : rows[i].status = "failed" => rows'[i].status = "failed"]_vars

\* C11: mark_sent(id) makes the row 'sent', stamps its sent_at with the time of
\* the call and sets the room's last_sent_at to that same time, changing nothing
\* else; every later enqueue is scheduled no earlier than one interval_sec after
\* the sent_at of any delivered row.
MarkSentEffect ==
    [][/\ (task = "running" /\ pc = "send" /\ pc' = "claim")
            => /\ DOMAIN rows' = DOMAIN rows
               /\ rows'[msg.id] = [rows[msg.id] EXCEPT !.status = "sent", !.sent_at = now]
               /\ \A k \in Ids(rows) : k # msg.id => rows'[k] = rows[k]
               /\ last_sent_at'[ROOM] = now
               /\ last_sent_at'[ROOM] = rows'[msg.id].sent_at
       /\ Len(rows') = Len(rows) + 1
            => \A i \in Ids(rows) :
                  rows[i].status = "sent"
                    => rows'[Len(rows) + 1].not_before >= rows[i].sent_at + interval_sec]_vars

\* the first row was delivered late, and the second, enqueued after that, is due
\* one interval_sec after the delivery
WitnessEnqueuePacedBySentAt ==
    /\ Len(rows) = 2
    /\ hist_resched = {}
    /\ rows[1].status = "sent"
    /\ rows[1].sent_at = last_sent_at[ROOM]
    /\ rows[1].sent_at > hist_enq_nb[1]
    /\ rows[2].status = "pending"
    /\ hist_enq_nb[2] = rows[1].sent_at + interval_sec

\* C12: a row that is 'pending' while the restarted process has no worker task
\* is eventually claimed and delivered, for which a worker task has to run.
PendingAtRestartGetsWorker ==
    (task = "none" /\ \E i \in Ids(rows) : rows[i].status = "pending")
        ~> (task = "running")

\* the accepted calls of actor u in allow_log
Accepted(u) == {k \in DOMAIN allow_log : allow_log[k].uid = u /\ allow_log[k].ok}

\* C13 as stated: two accepted calls for one actor whose timestamps are closer
\* than per_user_cooldown_sec both had ignore_cooldown=true.
AcceptedCloseOnlyIfBothIgnore ==
    per_user_cooldown_sec > 0
        => \A u \in Actors : \A j \in Accepted(u) : \A k \in Accepted(u) :
              (/\ j < k
               /\ allow_log[k].now - allow_log[j].now < per_user_cooldown_sec
               /\ allow_log[j].now - allow_log[k].now < per_user_cooldown_sec)
                  => allow_log[j].ignore /\ allow_log[k].ignore

\* C13 amended: a call with ignore_cooldown=false is accepted only at least
\* per_user_cooldown_sec after the timestamp of the actor's most recently
\* accepted call; two accepted calls of one actor, the accepted timestamps from
\* the one to the other non-decreasing, are closer than that only if the later
\* call had ignore_cooldown=true.
AcceptedCloseOnlyIfLaterIgnores ==
    per_user_cooldown_sec > 0
        => \A u \in Actors : \A j \in Accepted(u) : \A k \in Accepted(u) :
              j < k =>
                 LET between == {m \in Accepted(u) : j <= m /\ m <= k}
                 IN  /\ (between = {j, k} /\ ~allow_log[k].ignore)
                           => allow_log[k].now - allow_log[j].now >= per_user_cooldown_sec
                     /\ (/\ \A m \in between : \A n \in between :
                               m < n => allow_log[m].now <= allow_log[n].now
                         /\ allow_log[k].now - allow_log[j].now < per_user_cooldown_sec)
                           => allow_log[k].ignore

\* within the per-user cooldown of an accepted plain call, a call that ignores
\* the cooldown is accepted and a plain one is rejected
WitnessCooldownIgnoredByLater ==
    /\ per_user_cooldown_sec > 0
    /\ global_cooldown_sec = 0
    /\ per_user_daily_limit = 0
    /\ Len(allow_log) >= 3
    /\ \A k \in 1..3 : allow_log[k].uid = "A"
    /\ allow_log[1].ok /\ ~allow_log[1].ignore
    /\ allow_log[2].ok /\ allow_log[2].ignore
    /\ allow_log[2].now - allow_log[1].now < per_user_cooldown_sec
    /\ allow_log[2].now >= allow_log[1].now
    /\ ~allow_log[3].ok /\ ~allow_log[3].ignore
    /\ allow_log[3].now >= allow_log[2].now

\* the accepted calls made before call k, of any actor
AcceptedBefore(k) == {j \in DOMAIN allow_log : j < k /\ allow_log[j].ok}

\* C14: with global_cooldown_sec = G > 0, a call with ignore_cooldown=false made
\* after an accepted call at t is rejected if its timestamp t' has t' - t < G, and
\* is accepted if t' - t >= G and its actor has no accepted call yet; t is the
\* timestamp of the latest accepted call before it.
GlobalCooldownGate ==
    global_cooldown_sec > 0
        => \A k \in DOMAIN allow_log :
              (~allow_log[k].ignore /\ AcceptedBefore(k) # {})
                 => LET t == allow_log[SetMax(AcceptedBefore(k))].now
                        first == \A j \in AcceptedBefore(k) :
                                    allow_log[j].uid # allow_log[k].uid
                    IN  /\ allow_log[k].now - t < global_cooldown_sec
                              => ~allow_log[k].ok
                        /\ (allow_log[k].now - t >= global_cooldown_sec /\ first)
                              => allow_log[k].ok

\* A accepted at t, B rejected inside the global cooldown, B (no send so far)
\* accepted once the cooldown is over
WitnessGlobalCooldown ==
    /\ global_cooldown_sec > 0
    /\ Len(allow_log) >= 3
    /\ \A k \in 1..3 : ~allow_log[k].ignore
    /\ allow_log[1].uid = "A" /\ allow_log[1].ok
    /\ allow_log[2].uid = "B" /\ ~allow_log[2].ok
    /\ allow_log[2].now > allow_log[1].now
    /\ allow_log[2].now - allow_log[1].now < global_cooldown_sec
    /\ allow_log[3].uid = "B" /\ allow_log[3].ok
    /\ allow_log[3].now - allow_log[1].now >= global_cooldown_sec

\* C15: with per_user_daily_limit > 0, the accepted calls of one actor whose
\* timestamps fall in one calendar day are never more than per_user_daily_limit.
DailyQuotaNeverExceeded ==
    per_user_daily_limit > 0
        => \A u \in Actors : \A d \in {DayKey(t) : t \in Timestamps} :
              Cardinality({k \in Accepted(u) : DayKey(allow_log[k].now) = d})
                 <= per_user_daily_limit

\* the first call of the run of same-day add calls that ends at call k
RunStart(k) ==
    SetMin({j \in 1..k : \A m \in j..k : add_log[m].day = add_log[k].day})

RECURSIVE SumClamped(_, _, _)
\* the sum over calls lo..hi of the amounts added for key, each at least 0
SumClamped(lo, hi, key) ==
    IF lo > hi THEN 0
    ELSE SumClamped(lo, hi - 1, key)
         + (IF add_log[hi].key = key /\ add_log[hi].amount > 0
            THEN add_log[hi].amount ELSE 0)

\* C16: the total that add returns is the sum of the amounts (negative ones
\* counted as 0) added for that actor in the calls since the day last changed,
\* this call included: the whole sequence if all calls fall in one day, and the
\* new amount alone on the first add of another day, for whichever actor.
DailyTotalIsSumWithinDay ==
    /\ \A k \in DOMAIN add_log :
          add_log[k].total = SumClamped(RunStart(k), k, add_log[k].key)
    /\ \A k \in DOMAIN add_log :
          (k > 1 /\ add_log[k].day # add_log[k - 1].day)
             => add_log[k].total = (IF add_log[k].amount > 0 THEN add_log[k].amount ELSE 0)
    /\ add_log # <<>>
          => /\ current_day = add_log[Len(add_log)].day
             /\ \A u \in Actors :
                   counts[u] = SumClamped(RunStart(Len(add_log)), Len(add_log), u)

\* two amounts summed within a day, then the first add of another day returns
\* its amount alone and the other actor's total is gone
WitnessDayRollover ==
    /\ Len(add_log) >= 3
    /\ add_log[1].key = "B" /\ add_log[1].amount > 0
    /\ add_log[2].key = "B" /\ add_log[2].amount > 0
    /\ add_log[2].day = add_log[1].day
    /\ add_log[2].total = add_log[1].amount + add_log[2].amount
    /\ add_log[3].key = "A" /\ add_log[3].amount > 0
    /\ add_log[3].day # add_log[2].day
    /\ add_log[3].total = add_log[3].amount
    /\ counts["B"] = 0

\* C17: the contributions buffered for one actor within THANK_DELAY_SECONDS of
\* the first one go out in exactly one summary carrying what was buffered: a
\* summary is sent only once THANK_DELAY_SECONDS have passed since the first
\* contribution of the aggregate it reports, and it empties that aggregate.
SummaryAfterWindow ==
    [][Len(outbox') = Len(outbox) + 1
        => LET m == outbox'[Len(outbox')]
           IN  /\ pending_thanks[m.key] = <<m.gifts>>
               /\ pending_thanks'[m.key] = <<>>
               /\ clock >= agg_first[m.key] + THANK_DELAY_SECONDS]_vars

RecordedDespiteNotifyFailure ==
    [][(handled' = handled + 1 /\ last_kind' = "gift" /\ last_raised' # NULL)
        => /\ sink' = Append(sink, handled')
           /\ last_raised' \in {sink'[i] : i \in DOMAIN sink'}]_vars

\* a send raised in one event; that event and a later one are both recorded
WitnessRecordedAfterFailure ==
    /\ sender_set
    /\ last_raised # NULL
    /\ last_raised < handled
    /\ last_kind = "gift"
    /\ \E i \in DOMAIN sink : sink[i] = last_raised
    /\ sink[Len(sink)] = handled

\* ---- the rule specification ---------------------------------------------

\* rule.is_target_gift(gift) and rule.hit(gift) for one gift event
CheckGift(name, id, num) ==
    LET gift == [gift_name |-> name, gift_id |-> id, num |-> num]
    IN  /\ checked' = <<[gift |-> gift,
                         is_target |-> IsTargetGift(rule, gift),
                         hit |-> Hit(rule, gift)]>>
        /\ UNCHANGED <<rule, queueVars, limiterVars, counterVars, pipeVars, sendVars, ensureVars, thanksVars, roomVars, parserVars, outletVars>>

\* a rule built from any configured names, ids and threshold, and nothing else running
InitRule ==
    /\ interval_sec = InitInterval(DEFAULT_INTERVAL_SEC)
    /\ NewStore
    /\ NewRateLimiter(0, 0, 0)
    /\ NewDailyGiftCounter
    /\ NoSendDirect
    /\ NewSender
    /\ NewThanks
    /\ NoRoomOp
    /\ NoParse
    /\ NoOutlet
    /\ NewIngestPipeline(FALSE)
    /\ \E names \in SUBSET RawGiftNames, ids \in SUBSET GiftIds, min \in 0 .. MaxMinNum :
          NewGiftRule(names, ids, min)

NextRule ==
    \E name \in RawGiftNames, id \in GiftIds, num \in 0 .. MaxMinNum + 1 :
        CheckGift(name, id, num)

SpecRule == InitRule /\ [][NextRule]_vars

\* C20: is_target_gift(gift) is true exactly when the normalized name of the gift
\* is in the rule's name set or the id of the gift is in the rule's id set, and
\* hit(gift) is true exactly when is_target_gift(gift) holds and the quantity of
\* the gift is at least min_num
RuleDecidesByNameOrIdAndNum ==
    \A i \in 1 .. Len(checked) :
        LET c == checked[i]
        IN  /\ c.is_target <=>
                  \/ NormalizeGiftName(c.gift.gift_name) \in rule.target_gift_names
                  \/ c.gift.gift_id \in rule.target_gift_ids
            /\ c.hit <=> (c.is_target /\ c.gift.num >= rule.min_num)

\* a gift without an id whose name matches only once it is normalized, in the
\* quantity the rule asks for, judged by a rule that has names and ids
WitnessHitByNormalizedName ==
    /\ checked # <<>>
    /\ rule.target_gift_ids # {}
    /\ checked[1].gift.gift_id = 0
    /\ checked[1].gift.gift_name \notin rule.target_gift_names
    /\ rule.min_num > 0
    /\ checked[1].hit

\* ---- the worker's handling of delivery errors ----------------------------

\* C21 as stated: every delivery error other than 'too fast' (exc "rejected" is a
\* ResponseCodeException of any other code, exc "error" any other exception)
\* leads to reschedule of the claimed row with the error in last_error, never
\* to mark_failed.
OtherDeliveryErrorRescheduled ==
    [][(task = "running" /\ pc = "except" /\ pc' = "claim"
        /\ exc \in {"rejected", "error"})
        => /\ rows'[msg.id].status = "pending"
           /\ rows'[msg.id].last_error = exc]_vars

\* C21: every delivery error that is not a ResponseCodeException of the channel
\* leads to reschedule of the claimed row: the row is 'pending' again, due no
\* sooner than one interval_sec later, with the error in last_error, and it is
\* not marked 'failed'.
UnexpectedDeliveryErrorRescheduled ==
    [][(task = "running" /\ pc = "except" /\ pc' = "claim" /\ exc = "error")
        => /\ rows[msg.id].status = "sending"
           /\ rows'[msg.id].status = "pending"
           /\ rows'[msg.id].last_error = "error"
           /\ rows'[msg.id].not_before >= now + interval_sec
           /\ \A i \in Ids(rows') : rows'[i].status = "failed" =>
                                       rows[i].status = "failed"]_vars

\* a row whose delivery raised an unexpected exception: rescheduled with the
\* error recorded, and no row failed
WitnessErrorRescheduled ==
    \E i \in Ids(rows) : /\ i \in hist_resched
                         /\ rows[i].status = "pending"
                         /\ rows[i].last_error = "error"
                         /\ \A k \in Ids(rows) : rows[k].status # "failed"

\* C22: a rejection by the channel with a response code other than 'too fast'
\* makes the worker mark the claimed row 'failed' with the error in last_error;
\* the row stays in the store and is never retried: it stays 'failed' with that
\* error.
RejectedFailedAndNotRetried ==
    [][/\ (task = "running" /\ pc = "except" /\ pc' = "claim" /\ exc = "rejected")
            => /\ DOMAIN rows' = DOMAIN rows
               /\ rows'[msg.id] = [rows[msg.id] EXCEPT !.status = "failed",
                                                       !.sent_at = now,
                                                       !.last_error = "rejected"]
               /\ \A k \in Ids(rows) : k # msg.id => rows'[k] = rows[k]
       /\ \A i \in Ids(rows) :
             (rows[i].status = "failed" /\ rows[i].last_error = "rejected")
                => /\ i \in Ids(rows')
                   /\ rows'[i] = rows[i]]_vars

\* a delivery attempt: _send_direct has answered (the task goes on to mark_sent or
\* to a handler)
AttemptStep == task = "running" /\ pc = "send" /\ pc' # "send" /\ task' # "none"

\* the 'too fast' handler: reschedule(msg.id), then asyncio.sleep(interval_sec)
BackoffStep ==
    (task = "running" /\ pc = "except" /\ exc = "too_fast" /\ pc' # "except"
     /\ task' = "running")
        => /\ rows'[msg.id].status = "pending"
           /\ rows'[msg.id].not_before >= now + interval_sec
           /\ pc' = "sleep"
           /\ wake' = now + interval_sec
           /\ wake' >= throttled.until

\* C23 as stated: on 'too fast' the worker reschedules the claimed row and sleeps
\* interval_sec before its next claim_next, and no delivery attempt for any row
\* of the room is made less than interval_sec after a throttled attempt.
NoAttemptWithinIntervalOfThrottle ==
    [][/\ BackoffStep
       /\ AttemptStep => throttled = NoThrottle]_vars

\* C23: on 'too fast' the worker reschedules the claimed row and sleeps
\* interval_sec before its next claim_next, so the worker task that was throttled
\* makes no delivery attempt, for any row of the room, less than interval_sec
\* after the throttled attempt, and claims nothing while it sleeps.
ThrottledWorkerBacksOff ==
    [][/\ BackoffStep
       /\ AttemptStep => ~throttled.same_task
       /\ (task = "running" /\ pc = "sleep" /\ now < wake /\ task' = "running")
             => /\ pc' = "sleep"
                /\ \A i \in Ids(rows) : rows'[i] = rows[i]]_vars

\* the throttled row sent by the worker that was throttled, interval_sec or more
\* after the 'too fast' answer, while a second row was waiting
WitnessSentAfterBackoff ==
    \E i \in Ids(rows) : /\ rows[i].last_error = "too_fast"
                         /\ rows[i].status = "sent"
                         /\ rows[i].sent_at >= hist_enq_nb[i] + interval_sec
                         /\ Len(rows) >= 2
                         /\ task = "running"

\* ---- the specification of _send_direct -----------------------------------

\* return await room.send_danmaku(live.Danmaku(message)), and the except clause
FirstAttempt(reply) ==
    /\ send_pc = "first"
    /\ attempts' = Append(attempts, message)
    /\ replies' = Append(replies, reply)
    /\ send_pc' = IF reply = "ok" THEN "returned"
                  ELSE IF /\ reply = "too_long"
                          /\ Len(Fallback(message, max_length)) < Len(message)
                       THEN "retry"
                       ELSE "raised"
    /\ UNCHANGED <<message, max_length, queueVars, limiterVars, counterVars,
                   pipeVars, ruleVars, ensureVars, thanksVars, roomVars, parserVars, outletVars>>

\* return await room.send_danmaku(live.Danmaku(fallback)), inside the except clause
RetryAttempt(reply) ==
    /\ send_pc = "retry"
    /\ attempts' = Append(attempts, Fallback(message, max_length))
    /\ replies' = Append(replies, reply)
    /\ send_pc' = IF reply = "ok" THEN "returned" ELSE "raised"
    /\ UNCHANGED <<message, max_length, queueVars, limiterVars, counterVars,
                   pipeVars, ruleVars, ensureVars, thanksVars, roomVars, parserVars, outletVars>>

\* one call _send_direct(message) of a sender with any max_length, nothing else running
InitSendDirect ==
    /\ interval_sec = InitInterval(DEFAULT_INTERVAL_SEC)
    /\ NewStore
    /\ NewRateLimiter(0, 0, 0)
    /\ NewDailyGiftCounter
    /\ NewIngestPipeline(FALSE)
    /\ NewGiftRule({}, {}, 1)
    /\ NewSender
    /\ NewThanks
    /\ NoRoomOp
    /\ NoParse
    /\ NoOutlet
    /\ message \in Messages
    /\ max_length \in 0 .. MaxLen
    /\ send_pc = "first"
    /\ attempts = <<>>
    /\ replies = <<>>

NextSendDirect ==
    \/ \E reply \in Replies : FirstAttempt(reply)
    \/ \E reply \in Replies : RetryAttempt(reply)

SpecSendDirect == InitSendDirect /\ [][NextSendDirect]_vars

\* the call is over: it returned a response or raised the last answer
SendDirectOver == send_pc \in {"returned", "raised"}

\* what the claim says of one call, but for the length of the retried text
RetryOnceOnTooLong ==
    /\ Len(attempts) <= 2
    /\ Len(attempts) >= 1 => attempts[1] = message
    /\ Len(attempts) = 2 =>
          /\ replies[1] = "too_long"
          /\ Len(attempts[2]) < Len(message)
          /\ attempts[2] = SubSeq(message, 1, Len(attempts[2]))
    /\ SendDirectOver =>
          /\ send_pc = "returned" <=> replies[Len(replies)] = "ok"
          /\ (replies[1] = "too_long" /\ Len(attempts) = 1) =>
                \/ max_length - 1 >= Len(message)
                \/ Len(message) = 1

\* C24 as stated: a 'too long' answer makes _send_direct retry exactly once with
\* the message cut to max_length - 1 characters; a rejected retry, or a cut that
\* would not shorten the message, raises the error; at most two attempts a call.
RetryTruncatedUnderLimit ==
    /\ RetryOnceOnTooLong
    /\ Len(attempts) = 2 => Len(attempts[2]) = max_length - 1

\* C24: a 'too long' answer makes _send_direct retry exactly once with the
\* message cut to max(1, L - 1) characters, L being max_length, or the length of
\* the message when max_length is 0; a rejected retry, or a cut that would not
\* shorten the message, raises the error; at most two attempts a call.
RetryTruncatedUnderLimitOrLength ==
    /\ RetryOnceOnTooLong
    /\ Len(attempts) = 2 =>
          Len(attempts[2]) = Max2(1, (IF max_length = 0 THEN Len(message)
                                      ELSE max_length) - 1)

\* a sender without a limit whose message was too long: retried once, one
\* character shorter, and the retry rejected too
WitnessRetryWithoutLimit ==
    /\ send_pc = "raised"
    /\ max_length = 0
    /\ Len(attempts) = 2
    /\ Len(attempts[2]) = Len(message) - 1
    /\ replies = <<"too_long", "too_long">>

\* C25: right after reschedule(id) the not_before of the rescheduled row is at
\* least interval_sec later than the not_before of every other 'pending' or
\* 'sending' row of the room.
RescheduledBehindOutstanding ==
    [][(task = "running" /\ pc = "except" /\ pc' \in {"sleep", "claim"}
        /\ exc \in {"too_fast", "error", "store"}
        /\ msg.id # NULL)
        => \A k \in Ids(rows') :
              (/\ k # msg.id
               /\ rows'[k].room_id = ROOM
               /\ rows'[k].status \in {"pending", "sending"})
                  => rows'[msg.id].not_before >= rows'[k].not_before + interval_sec]_vars

\* the first row, throttled while two younger rows were waiting, is now due
\* behind both of them
WitnessRescheduledBehindYounger ==
    /\ Len(rows) = 3
    /\ 1 \in hist_resched
    /\ pc = "sleep"
    /\ rows[1].status = "pending"
    /\ rows[2].status = "pending"
    /\ rows[3].status = "pending"
    /\ rows[1].not_before >= rows[3].not_before + interval_sec
    /\ rows[3].not_before > rows[2].not_before

\* C26: no worker task is alive while the room's queue holds no 'pending' row:
\* a worker that has found the queue drained (claim_next and
\* next_available_delay both None) is not left sleeping for another poll.
NoWorkerOnDrainedQueue ==
    (task = "running" /\ pc = "sleep")
        => \E i \in Ids(rows) : /\ rows[i].room_id = ROOM
                                /\ rows[i].status \in {"pending", "sending"}

\* ---- _ensure_queue_worker under concurrent _enqueue_or_send calls ---------
\* Each call runs on the event loop statement by statement; another call, or the
\* worker task, may run wherever a call awaits.

\* variant: the body entered without holding the lock
LockAcquirableAlways(lock) == TRUE

\* async with self._queue_lock: the lock can be taken when nobody holds it
LockAcquirable(lock) == lock = "free"

\* if self._queue_task and not self._queue_task.done(): return
WorkerAlive(qt, ts) == qt # NULL /\ ts[qt] # "done"

\* msg_id = await asyncio.to_thread(self._queue.enqueue, trimmed)
EnsureEnqueue(c) ==
    /\ epc[c] = "idle"
    /\ Len(rows) < MaxRows
    /\ rows' = EnqueueRow(rows, last_sent_at, ROOM, interval_sec, now)
    /\ hist_enq_nb' = Append(hist_enq_nb, rows'[Len(rows) + 1].not_before)
    /\ epc' = [epc EXCEPT ![c] = "acquire"]
    /\ UNCHANGED <<now, interval_sec, last_sent_at, hist_resched, workerVars, callerVars,
                   throttled, queue_lock, queue_task, loop_tasks,
                   limiterVars, counterVars, pipeVars, ruleVars, sendVars, thanksVars, roomVars, parserVars, outletVars>>

\* async with self._queue_lock
EnsureAcquire(c) ==
    /\ epc[c] = "acquire"
    /\ LockAcquirable(queue_lock)
    /\ queue_lock' = c
    /\ epc' = [epc EXCEPT ![c] = "check"]
    /\ UNCHANGED <<queue_task, loop_tasks, queueVars,
                   limiterVars, counterVars, pipeVars, ruleVars, sendVars, thanksVars, roomVars, parserVars, outletVars>>

\* if self._queue_task and not self._queue_task.done(): return
EnsureCheck(c) ==
    /\ epc[c] = "check"
    /\ epc' = [epc EXCEPT ![c] = IF WorkerAlive(queue_task, loop_tasks) THEN "release"
                                 ELSE "create"]
    /\ UNCHANGED <<queue_lock, queue_task, loop_tasks, queueVars,
                   limiterVars, counterVars, pipeVars, ruleVars, sendVars, thanksVars, roomVars, parserVars, outletVars>>

\* self._queue_task = asyncio.create_task(self._queue_loop())
EnsureCreate(c) ==
    /\ epc[c] = "create"
    /\ loop_tasks' = Append(loop_tasks, "running")
    /\ queue_task' = Len(loop_tasks) + 1
    /\ epc' = [epc EXCEPT ![c] = "release"]
    /\ UNCHANGED <<queue_lock, queueVars,
                   limiterVars, counterVars, pipeVars, ruleVars, sendVars, thanksVars, roomVars, parserVars, outletVars>>

\* leaving the async with block
EnsureRelease(c) ==
    /\ epc[c] = "release"
    /\ queue_lock' = IF queue_lock = c THEN "free" ELSE queue_lock
    /\ epc' = [epc EXCEPT ![c] = "idle"]
    /\ UNCHANGED <<queue_task, loop_tasks, queueVars,
                   limiterVars, counterVars, pipeVars, ruleVars, sendVars, thanksVars, roomVars, parserVars, outletVars>>

\* a _queue_loop task ends: an exception leaves the loop (mark_sent raising, a
\* handler raising)
QueueLoopEnds(t) ==
    /\ t \in DOMAIN loop_tasks
    /\ loop_tasks[t] = "running"
    /\ loop_tasks' = [loop_tasks EXCEPT ![t] = "done"]
    /\ UNCHANGED <<queue_lock, queue_task, epc, queueVars,
                   limiterVars, counterVars, pipeVars, ruleVars, sendVars, thanksVars, roomVars, parserVars, outletVars>>

NextEnsure ==
    \/ \E c \in Callers : EnsureEnqueue(c)
    \/ \E c \in Callers : EnsureAcquire(c)
    \/ \E c \in Callers : EnsureCheck(c)
    \/ \E c \in Callers : EnsureCreate(c)
    \/ \E c \in Callers : EnsureRelease(c)
    \/ \E t \in 1 .. MaxRows : QueueLoopEnds(t)

SpecEnsure == Init /\ [][NextEnsure]_vars

\* C27: at most one _queue_loop task of the sender is alive, however the
\* concurrent _enqueue_or_send calls interleave; a task is created only while
\* the creating call holds the lock and no task exists or the previous one is done.
AtMostOneWorkerTask ==
    /\ Cardinality({t \in DOMAIN loop_tasks : loop_tasks[t] = "running"}) <= 1
    /\ \A c \in Callers : epc[c] = "create" =>
          /\ queue_lock = c
          /\ \A t \in DOMAIN loop_tasks : loop_tasks[t] = "done"

\* two calls at once, the second kept waiting for the lock by the first, and a
\* second task created only after the first had ended
WitnessSecondTaskAfterFirstEnded ==
    /\ Len(loop_tasks) = 2
    /\ loop_tasks[1] = "done"
    /\ loop_tasks[2] = "running"
    /\ queue_task = 2
    /\ \E c \in Callers : epc[c] = "release" /\ queue_lock = c
    /\ \E c \in Callers : epc[c] = "acquire"

\* C28: when the claim loop runs again after a restart, the rows a crashed or
\* cancelled worker left 'sending' have been reset to 'pending': a worker about
\* to call claim_next finds no row 'sending'.
NoStaleSendingAtClaim ==
    (task = "running" /\ pc = "claim")
        => \A i \in Ids(rows) : rows[i].status # "sending"

\* C29: allow changes the limiter only when it returns true: a rejected call
\* leaves _last_global_ts and every actor's _last_user_ts, day and daily count
\* as they were; an accepted call, with or without ignore_cooldown, sets
\* _last_global_ts and the actor's _last_user_ts to the timestamp, the actor's
\* day to the day of the timestamp and the actor's count to one more than its
\* count of that day, and leaves the other actors' entries and the settings alone.
AllowFrameEffect ==
    [][Len(allow_log') = Len(allow_log) + 1 =>
          LET c == allow_log'[Len(allow_log')]
              day == c.now \div DayLen
          IN  /\ ~c.ok => /\ last_global_ts' = last_global_ts
                          /\ last_user_ts' = last_user_ts
                          /\ user_day' = user_day
                          /\ user_day_count' = user_day_count
              /\ c.ok => /\ last_global_ts' = c.now
                         /\ last_user_ts'[c.uid] = c.now
                         /\ user_day'[c.uid] = day
                         /\ user_day_count'[c.uid] =
                               IF user_day[c.uid] = day THEN user_day_count[c.uid] + 1
                               ELSE 1
                         /\ \A u \in Actors \ {c.uid} :
                               /\ last_user_ts'[u] = last_user_ts[u]
                               /\ user_day'[u] = user_day[u]
                               /\ user_day_count'[u] = user_day_count[u]
              /\ global_cooldown_sec' = global_cooldown_sec
              /\ per_user_cooldown_sec' = per_user_cooldown_sec
              /\ per_user_daily_limit' = per_user_daily_limit]_vars

\* an accepted call, a rejected one that left the state of the first, and a call
\* on a later day accepted with ignore_cooldown, which starts the count of that
\* day at 1
WitnessAcceptRejectAccept ==
    /\ Len(allow_log) = 3
    /\ allow_log[1].ok /\ ~allow_log[1].ignore
    /\ ~allow_log[2].ok
    /\ allow_log[3].ok /\ allow_log[3].ignore
    /\ allow_log[1].uid = allow_log[3].uid
    /\ allow_log[3].now \div DayLen > allow_log[1].now \div DayLen
    /\ last_global_ts = allow_log[3].now
    /\ user_day_count[allow_log[3].uid] = 1

\* ---- services/ingest_pipeline.py: count mode ------------------------------
\* handle_event for a GiftEvent that is recorded (not the blind-box base gift),
\* with a sender, thank_mode "count", thank_guard off and no settings_reloader.
\* The rate limiter is built from the same settings, so
\* settings.thank_per_user_daily_limit is the limiter's per_user_daily_limit.
\* The histories add_log and allow_log record the direct calls of SpecCounter
\* and SpecLimiter only; the calls made from here are recorded in true_total
\* and fire_count.

\* variant: the dicts kept when the day changes
HitsForDayKept(hits, cur, day) == hits

\* _ensure_thanks_day: _threshold_hits (or _user_day_thanks) = {} on another day
HitsForDay(hits, cur, day) == IF cur # day THEN [u \in Actors |-> 0] ELSE hits

\* threshold = max(self.rule.min_num, 1)
Threshold(r) == Max2(r.min_num, 1)

\* reached = total // threshold; not (reached <= sent)
ReachedNew(total, threshold, sent) == total \div threshold > sent

\* settings.target_gifts
TargetGifts == {"Star"}

\* the Settings snapshot the pipeline holds: the fields the rule and the
\* limiter were built from, and the rest
CurrentSettings ==
    [target_min_num |-> rule.min_num,
     thank_per_user_cooldown_sec |-> per_user_cooldown_sec,
     thank_per_user_daily_limit |-> per_user_daily_limit,
     rest |-> settings_rest]

\* the snapshots settings_reloader.reload_if_changed() can return
LatestSettings ==
    [target_min_num : {1, MaxMinNum},
     thank_per_user_cooldown_sec : {0},
     thank_per_user_daily_limit : {0},
     rest : {0, 1}]

\* variant: the per-actor state kept when the snapshot has changed
RefreshedKept(old, changed, fresh) == old

\* _refresh_settings: a part of the pipeline replaced by a fresh one when the
\* snapshot has changed, kept otherwise
Refreshed(old, changed, fresh) == IF changed THEN fresh ELSE old

\* RateLimiter.allow on the limiter just built from snapshot s: no call yet
FreshAllowResult(s, t, ignore_cooldown) ==
    /\ ignore_cooldown
        \/ /\ ~InCooldown(t, 0, 0)
           /\ ~InCooldown(t, 0, s.thank_per_user_cooldown_sec)
    /\ ~QuotaReached(0, s.thank_per_user_daily_limit)

\* handle_event(event) for a recorded gift: _refresh_settings with the snapshot
\* latest (the held one when there is no reloader), then insert_gift to
\* _buffer_thanks
HandleGiftCount(latest, key, name, num, ts, combo) ==
    LET id == handled + 1
        changed == latest # CurrentSettings
        none == [u \in Actors |-> 0]
        rule0 == Refreshed(rule, changed, BuildRule(TargetGifts, {}, latest.target_min_num))
        limit0 == Refreshed(per_user_daily_limit, changed, latest.thank_per_user_daily_limit)
        pend0 == RefreshedPending(pending_thanks, changed)
        gift == [gift_name |-> name, gift_id |-> 0, num |-> num]
        day == DayKey(ts)
        day0 == Refreshed(thanks_day, changed, NoDay)
        hits0 == HitsForDay(Refreshed(threshold_hits, changed, none), day0, day)
        thanks0 == HitsForDay(Refreshed(user_day_thanks, changed, none), day0, day)
        target == IsTargetGift(rule0, gift)
        amount == NumOrOne(num)
        cs == CountsForDay(Refreshed(counts, changed, none),
                           Refreshed(current_day, changed, NoDay), day)
        total == cs[key] + ClampAmount(amount)
        reached == total \div Threshold(rule0)
        new == target /\ ReachedNew(total, Threshold(rule0), hits0[key])
        asks == new /\ ~QuotaReached(thanks0[key], limit0)
        ok == asks /\ IF changed THEN FreshAllowResult(latest, AllowNow(ts, ts), combo)
                      ELSE AllowResult(key, AllowNow(ts, ts), combo)
        global0 == Refreshed(last_global_ts, changed, 0)
        user0 == Refreshed(last_user_ts, changed, none)
        uday0 == Refreshed(user_day, changed, [u \in Actors |-> NoDay])
        ucount0 == Refreshed(user_day_count, changed, none)
        daily0 == IF uday0[key] # day THEN 0 ELSE ucount0[key]
    IN  /\ handled < MaxGifts
        /\ sender_set
        /\ handled' = id
        /\ last_kind' = "gift"
        /\ sink' = SinkAfterEvent(sink, id, "gift", sender_set, FALSE)
        /\ rule' = rule0
        /\ settings_rest' = latest.rest
        /\ global_cooldown_sec' = Refreshed(global_cooldown_sec, changed, 0)
        /\ per_user_cooldown_sec' = latest.thank_per_user_cooldown_sec
        /\ per_user_daily_limit' = limit0
        /\ thanks_day' = day
        /\ current_day' = IF target THEN day ELSE Refreshed(current_day, changed, NoDay)
        /\ counts' = IF target THEN [cs EXCEPT ![key] = total]
                     ELSE Refreshed(counts, changed, none)
        /\ true_total' = IF target
                         THEN [true_total EXCEPT ![key][day] = @ + ClampAmount(amount)]
                         ELSE true_total
        /\ last_global_ts' = IF ok THEN ts ELSE global0
        /\ last_user_ts' = IF ok THEN [user0 EXCEPT ![key] = ts] ELSE user0
        /\ user_day' = IF ok THEN [uday0 EXCEPT ![key] = day] ELSE uday0
        /\ user_day_count' = IF ok THEN [ucount0 EXCEPT ![key] = daily0 + 1] ELSE ucount0
        /\ user_day_thanks' = IF ok THEN [thanks0 EXCEPT ![key] = @ + 1] ELSE thanks0
        /\ threshold_hits' = IF ok THEN [hits0 EXCEPT ![key] = reached] ELSE hits0
        /\ pending_thanks' = IF ok THEN BufferedPending(pend0, key, name, num) ELSE pend0
        /\ flush_tasks' = IF ok THEN BufferedTasks(flush_tasks, pend0, key, clock)
                          ELSE flush_tasks
        /\ fire_count' = IF ok THEN [fire_count EXCEPT ![key][day] = @ + 1] ELSE fire_count
        /\ agg_first' = [u \in Actors |->
                            IF ok /\ u = key /\ pend0[u] = <<>> THEN clock
                            ELSE IF pending_thanks'[u] = <<>> THEN NULL
                            ELSE agg_first[u]]
        /\ UNCHANGED <<clock, sender_set, outbox, last_raised, add_log, allow_log, checked,
                       queueVars, sendVars, ensureVars, roomVars, parserVars, outletVars>>

\* a count-mode pipeline with a sender: "Star" is the target gift, the threshold
\* is 1 (min_num 0 or 1) or more, the limiter's per-user settings on or off
InitCount ==
    /\ interval_sec = InitInterval(DEFAULT_INTERVAL_SEC)
    /\ NewStore
    /\ \E p \in {0, MaxCooldown} : \E l \in {0, MaxDaily} : NewRateLimiter(0, p, l)
    /\ NewDailyGiftCounter
    /\ NoSendDirect
    /\ NewSender
    /\ NewThanks
    /\ NoRoomOp
    /\ NoParse
    /\ NoOutlet
    /\ NewIngestPipeline(TRUE)
    /\ \E m \in {0, MaxMinNum} : NewGiftRule(TargetGifts, {}, m)

\* the first and the last timestamp, which lie on two days
EdgeTimestamps == {MaxCooldown, MaxCooldown + TsSpan}

\* a pipeline without settings_reloader: a gift of no stated number (counted as
\* 1) or of the largest number, its timestamps in any order
NextCount ==
    \E key \in Actors : \E name \in GiftNames : \E num \in {0, MaxAmount} :
    \E ts \in EdgeTimestamps : \E combo \in BOOLEAN :
        HandleGiftCount(CurrentSettings, key, name, num, ts, combo)

SpecCount == InitCount /\ [][NextCount]_vars

\* C30: in count mode, for each actor and calendar day, the notifications
\* buffered never outnumber the threshold multiples contained in what the actor
\* gave in target gifts that day: no threshold crossing fires twice.
NoThresholdFiresTwice ==
    \A k \in Actors : \A d \in Days :
        fire_count[k][d] * Threshold(rule) <= true_total[k][d]

\* C31: every actor key with an open aggregate has exactly one live flush task,
\* whatever the order of buffer calls, timer firings and configuration reloads.
OneFlushTaskPerOpenAggregate ==
    \A u \in Actors :
        pending_thanks[u] # <<>> => Cardinality({t \in flush_tasks : t.key = u}) = 1

\* a count-mode pipeline with a sender and a settings_reloader, threshold
\* MaxMinNum, the limiter off
InitReload ==
    /\ interval_sec = InitInterval(DEFAULT_INTERVAL_SEC)
    /\ NewStore
    /\ NewRateLimiter(0, 0, 0)
    /\ NewDailyGiftCounter
    /\ NoSendDirect
    /\ NewSender
    /\ NewThanks
    /\ NoRoomOp
    /\ NoParse
    /\ NoOutlet
    /\ NewIngestPipeline(TRUE)
    /\ NewGiftRule(TargetGifts, {}, MaxMinNum)

\* a gift (no COMBO_SEND, every timestamp the same) handled while the reloader
\* returns the held snapshot or another one
NextReload ==
    \E latest \in LatestSettings :
    \E key \in Actors : \E name \in GiftNames : \E num \in {0, MaxAmount} :
        HandleGiftCount(latest, key, name, num, MaxCooldown, FALSE)

SpecReload == InitReload /\ [][NextReload]_vars

\* the per-actor state of actor u is that of a new pipeline
NoActorState(u) ==
    /\ pending_thanks'[u] = <<>>
    /\ threshold_hits'[u] = 0
    /\ user_day_thanks'[u] = 0
    /\ counts'[u] = 0
    /\ last_user_ts'[u] = 0
    /\ user_day'[u] = NoDay
    /\ user_day_count'[u] = 0

\* the state after the step is that of a new pipeline, built from the new
\* snapshot, that has handled the one triggering event
FreshAfterOneEvent ==
    /\ rule' = BuildRule(TargetGifts, {}, CurrentSettings'.target_min_num)
    /\ \E k \in Actors :
        /\ \A u \in Actors \ {k} : NoActorState(u)
        /\ counts'[k] <= MaxAmount
        /\ user_day_thanks'[k] <= 1
        /\ user_day_count'[k] <= 1
        /\ threshold_hits'[k] \in {0, counts'[k] \div Threshold(rule')}
        /\ fire_count' # fire_count <=> counts'[k] \div Threshold(rule') >= 1
        /\ fire_count' # fire_count <=> pending_thanks'[k] # <<>>
        /\ fire_count' # fire_count <=> threshold_hits'[k] # 0

\* no per-actor state is emptied by the step, but by a change of day
NothingReplaced ==
    /\ rule' = rule
    /\ \A u \in Actors :
        /\ pending_thanks[u] # <<>> => pending_thanks'[u] # <<>>
        /\ thanks_day' = thanks_day =>
              /\ threshold_hits'[u] >= threshold_hits[u]
              /\ user_day_thanks'[u] >= user_day_thanks[u]
        /\ current_day' = current_day => counts'[u] >= counts[u]
        /\ user_day'[u] = user_day[u] => user_day_count'[u] >= user_day_count[u]
        /\ last_user_ts[u] # 0 => last_user_ts'[u] # 0

\* C32: a handle_event step that finds a changed snapshot leaves the rule built
\* from the new snapshot and the limiter, counter and per-actor state (open
\* aggregates, threshold multiples, daily thank counts) of a new pipeline that
\* has seen the triggering event only; with the same snapshot nothing is replaced.
ReloadReplacesAllBeforeEvent ==
    [][handled' # handled =>
          IF CurrentSettings' # CurrentSettings THEN FreshAfterOneEvent
          ELSE NothingReplaced]_vars

\* an aggregate was opened (its flush task exists) and a later event with a
\* changed snapshot has discarded it
WitnessReloadDiscardsAggregate ==
    /\ settings_rest # 0
    /\ \E t \in flush_tasks : pending_thanks[t.key] = <<>>

\* ---- core/danmaku_queue.py: several rooms on one store --------------------
\* Two DanmakuQueue objects, one per room, opened on the same db_path with the
\* same interval_sec; each action is one call, whose transaction is one step.
\* msg_id is any id of the table, a row of the other room included.  rows,
\* last_sent_at and now are the table, the meta table and the clock; the worker
\* and the histories of Spec stand still.  last_op.n counts the calls, of which
\* a run makes MaxCalls at most.

Rooms == {ROOM, ROOM + 1}

\* _ensure_schema of both queues on a new store: no rows, a meta row per room
NewSharedStore ==
    /\ now = 1
    /\ rows = <<>>
    /\ last_sent_at = [r \in Rooms |-> 0]
    /\ task = "none"
    /\ pc = "none"
    /\ msg = NoMsg
    /\ wake = NULL
    /\ exc = "none"
    /\ faults = 0
    /\ hist_enq_nb = <<>>
    /\ hist_resched = {}
    /\ db_lock = "free"
    /\ cpc = [c \in Callers |-> "idle"]
    /\ cnow = [c \in Callers |-> NULL]
    /\ crow = [c \in Callers |-> NULL]
    /\ returned = [c \in Callers |-> {}]
    /\ throttled = NoThrottle

\* what no call on the shared store changes
RoomFrame ==
    UNCHANGED <<interval_sec, hist_enq_nb, hist_resched, workerVars, callerVars,
                throttled, limiterVars, counterVars, pipeVars, ruleVars, sendVars,
                ensureVars, thanksVars, parserVars, outletVars>>

\* DanmakuQueue(room a).enqueue(message)
RoomEnqueue(a) ==
    /\ last_op.n < MaxCalls
    /\ Len(rows) < MaxRows
    /\ rows' = EnqueueRow(rows, last_sent_at, a, interval_sec, now)
    /\ last_op' = [room |-> a, op |-> "enqueue", id |-> Len(rows) + 1, n |-> last_op.n + 1]
    /\ UNCHANGED <<now, last_sent_at>>
    /\ RoomFrame

\* DanmakuQueue(room a).claim_next()
RoomClaimNext(a) ==
    LET id == SelectNext(rows, a, now)
    IN  /\ last_op.n < MaxCalls
        /\ rows' = IF id = NULL THEN rows ELSE SetSending(rows, a, id)
        /\ last_op' = [room |-> a, op |-> "claim_next", id |-> id, n |-> last_op.n + 1]
        /\ UNCHANGED <<now, last_sent_at>>
        /\ RoomFrame

\* DanmakuQueue(room a).mark_sent(id)
RoomMarkSent(a, id) ==
    /\ last_op.n < MaxCalls
    /\ rows' = MarkSentRows(rows, a, id, now)
    /\ last_sent_at' = MarkSentMeta(last_sent_at, a, now)
    /\ last_op' = [room |-> a, op |-> "mark_sent", id |-> id, n |-> last_op.n + 1]
    /\ UNCHANGED now
    /\ RoomFrame

\* DanmakuQueue(room a).reschedule(id, error=...)
RoomReschedule(a, id) ==
    /\ last_op.n < MaxCalls
    /\ rows' = Reschedule(rows, last_sent_at, a, interval_sec, id, "error", now, now)
    /\ last_op' = [room |-> a, op |-> "reschedule", id |-> id, n |-> last_op.n + 1]
    /\ UNCHANGED <<now, last_sent_at>>
    /\ RoomFrame

\* DanmakuQueue(room a).mark_failed(id, error)
RoomMarkFailed(a, id) ==
    /\ last_op.n < MaxCalls
    /\ rows' = MarkFailed(rows, a, id, "rejected", now)
    /\ last_op' = [room |-> a, op |-> "mark_failed", id |-> id, n |-> last_op.n + 1]
    /\ UNCHANGED <<now, last_sent_at>>
    /\ RoomFrame

\* time passes
RoomTick ==
    /\ now < MaxTime
    /\ now' = now + 1
    /\ UNCHANGED <<rows, last_sent_at, last_op>>
    /\ RoomFrame

InitRooms ==
    /\ interval_sec = InitInterval(0)
    /\ NewSharedStore
    /\ NewRateLimiter(0, 0, 0)
    /\ NewDailyGiftCounter
    /\ NoSendDirect
    /\ NewSender
    /\ NewThanks
    /\ NoRoomOp
    /\ NoParse
    /\ NoOutlet
    /\ NewIngestPipeline(FALSE)
    /\ NewGiftRule({}, {}, 1)

NextRooms ==
    \/ \E a \in Rooms : RoomEnqueue(a)
    \/ \E a \in Rooms : RoomClaimNext(a)
    \/ \E a \in Rooms : \E id \in Ids(rows) : RoomMarkSent(a, id)
    \/ \E a \in Rooms : \E id \in Ids(rows) : RoomReschedule(a, id)
    \/ \E a \in Rooms : \E id \in Ids(rows) : RoomMarkFailed(a, id)
    \/ RoomTick

SpecRooms == InitRooms /\ [][NextRooms]_vars

\* the rows of room a alone, under their ids
OwnRows(rs, a) == [i \in {j \in Ids(rs) : rs[j].room_id = a} |-> rs[i]]

\* the meta row of room a alone
OwnMeta(meta, a) == [r \in {a} |-> meta[r]]

\* the call of room a recorded in last_op' has left room b as it was
RoomUntouched(b) ==
    /\ last_sent_at'[b] = last_sent_at[b]
    /\ \A i \in Ids(rows) : rows[i].room_id = b => rows'[i] = rows[i]
    /\ \A i \in Ids(rows') \ Ids(rows) : rows'[i].room_id # b

\* what the call of room a read is what it would have read from its own rows
RoomReadsOwn(a, op, id) ==
    /\ op = "enqueue" =>
          rows'[id].not_before =
              ComputeNotBefore(OwnRows(rows, a), OwnMeta(last_sent_at, a), a,
                               interval_sec, now, <<>>)
    /\ op = "reschedule" /\ rows'[id] # rows[id] =>
          rows'[id].not_before =
              ComputeNotBefore(OwnRows(rows, a), OwnMeta(last_sent_at, a), a,
                               interval_sec, now, <<now + interval_sec>>)
    /\ op = "claim_next" => id = SelectNext(OwnRows(rows, a), a, now)

\* C33: enqueue, claim_next, mark_sent, reschedule and mark_failed of one room
\* leave every row and the last_sent_at of the other room unchanged, whatever
\* msg_id they are given, and the not_before they compute and the row they
\* claim are those computed from the room's own rows and meta row.
RoomsIndependent ==
    [][last_op' # last_op \/ rows' # rows \/ last_sent_at' # last_sent_at =>
          /\ \A b \in Rooms \ {last_op'.room} : RoomUntouched(b)
          /\ RoomReadsOwn(last_op'.room, last_op'.op, last_op'.id)]_vars

\* a room has just enqueued a row that is due before an outstanding row of the
\* other room
WitnessEnqueuedAheadOfOtherRoom ==
    /\ last_op.op = "enqueue"
    /\ \E i \in Ids(rows) :
          /\ rows[i].room_id # last_op.room
          /\ rows[i].status \in {"pending", "sending"}
          /\ rows[i].not_before > rows[last_op.id].not_before

\* ---- core/gift_parser.py --------------------------------------------------
\* A payload field is absent or None ("none"), a value int() raises on ("bad",
\* a non-numeric string) or a number ("int": an int, or a string of digits).
\* Names are taken as they are after str() and strip(); ts, room_id and
\* raw_json are left out of the GiftEvent.

Absent == [kind |-> "none", val |-> 0]

Unparsable == [kind |-> "bad", val |-> 0]

IntVal(n) == [kind |-> "int", val |-> n]

\* the values of a numeric field of a payload, zero and negative ones included
FieldVals == {Absent, Unparsable} \cup {IntVal(n) : n \in (0 - 1) .. MaxAmount}

\* Python truth of a field value: None and 0 are falsy, a non-empty string is not
Truthy(v) == v.kind = "bad" \/ (v.kind = "int" /\ v.val # 0)

\* a or b
Or(a, b) == IF Truthy(a) THEN a ELSE b

\* try: int(v) except Exception: default
IntOr(v, default) == IF v.kind = "int" THEN v.val ELSE default

\* for k in keys: v = data.get(k); None -> continue; try int(v), break;
\* except -> continue; default when no key gives a number
RECURSIVE FirstInt(_, _)
FirstInt(vals, default) ==
    IF vals = <<>> THEN default
    ELSE IF Head(vals).kind = "int" THEN Head(vals).val
    ELSE FirstInt(Tail(vals), default)

\* SUPPORTED_GIFT_CMDS
SUPPORTED_GIFT_CMDS == {"SEND_GIFT", "COMBO_SEND", "GUARD_BUY"}

\* _resolve_guard_name: GUARD_LEVEL_NAMES.get(guard_level, "大航海")
ResolveGuardName(guard_level) ==
    CASE guard_level = 1 -> "Governor"
      [] guard_level = 2 -> "Admiral"
      [] guard_level = 3 -> "Captain"
      [] OTHER -> "Voyage"

\* parse_send_gift(event, room_id): <<>> for None
ParseSendGiftResult(p) ==
    LET gift_id == IntOr(Or(p.gift_id, IntVal(0)), 0)
        num == FirstInt(p.nums, 1)
        total_price == FirstInt(p.prices, 0)
    IN  IF p.cmd \notin SUPPORTED_GIFT_CMDS THEN NoEvent
        ELSE IF p.uname = "" \/ p.gift_name = "" THEN NoEvent
        ELSE <<[uname |-> p.uname, gift_id |-> gift_id, gift_name |-> p.gift_name,
                num |-> num, total_price |-> total_price]>>

\* parse_guard_buy(event, room_id): <<>> for None
ParseGuardBuyResult(p) ==
    LET guard_level == IntOr(Or(Or(p.guard_level, p.gift_id), IntVal(0)), 0)
        gift_name == IF p.gift_name # "" THEN p.gift_name
                     ELSE ResolveGuardName(guard_level)
        num == IntOr(Or(p.num, IntVal(1)), 1)
        base_price == IntOr(Or(p.price, IntVal(0)), 0)
        total_price == base_price * Max2(num, 1)
    IN  IF p.cmd # "GUARD_BUY" THEN NoEvent
        ELSE IF p.uname = "" \/ gift_name = "" THEN NoEvent
        ELSE <<[uname |-> p.uname, gift_id |-> guard_level, gift_name |-> gift_name,
                num |-> num, total_price |-> total_price]>>

\* the values of n keys read in order: the keys before p hold w (no number),
\* key p holds v, the later ones are absent
KeyLists(n) ==
    {[i \in 1 .. n |-> IF i < p THEN w ELSE IF i = p THEN v ELSE Absent] :
        p \in 1 .. n, v \in FieldVals, w \in {Absent, Unparsable}}

\* uname / gift_name of a payload after str() and strip(), "" when missing
PayloadNames == {"", "A"}

\* the payloads of SEND_GIFT and COMBO_SEND events: every reading of the
\* quantity keys (num, total_num, combo_num) with the price in the first key or
\* nowhere, and every reading of the five price keys; other cmds
SendGiftPayloads ==
    [cmd : {"SEND_GIFT", "COMBO_SEND"}, uname : PayloadNames, gift_name : {"", "Star"},
     gift_id : {Absent, IntVal(1)}, nums : KeyLists(3),
     prices : {[i \in 1 .. 5 |-> IF i = 1 THEN v ELSE Absent] : v \in FieldVals}]
    \cup
    [cmd : {"SEND_GIFT", "DANMU_MSG"}, uname : {"A"}, gift_name : {"Star"},
     gift_id : {Unparsable}, nums : {[i \in 1 .. 3 |-> Absent]}, prices : KeyLists(5)]

\* the payloads of GUARD_BUY events, and of another cmd
GuardBuyPayloads ==
    [cmd : {"GUARD_BUY"}, uname : PayloadNames, gift_name : {"", "Star", "Moon"},
     guard_level : FieldVals, gift_id : {Absent, IntVal(1)},
     num : FieldVals, price : FieldVals]
    \cup
    [cmd : {"SEND_GIFT"}, uname : {"A"}, gift_name : {"Star"},
     guard_level : {IntVal(1)}, gift_id : {Absent}, num : {Absent}, price : {Absent}]

\* gift = parse_send_gift(event, room_id)
ParseSendGift(p) ==
    /\ parsed' = ParseSendGiftResult(p)
    /\ UNCHANGED <<queueVars, limiterVars, counterVars, pipeVars, ruleVars, sendVars,
                   ensureVars, thanksVars, roomVars, outletVars>>

\* gift = parse_guard_buy(event, room_id)
ParseGuardBuy(p) ==
    /\ parsed' = ParseGuardBuyResult(p)
    /\ UNCHANGED <<queueVars, limiterVars, counterVars, pipeVars, ruleVars, sendVars,
                   ensureVars, thanksVars, roomVars, outletVars>>

InitParser ==
    /\ interval_sec = InitInterval(DEFAULT_INTERVAL_SEC)
    /\ NewStore
    /\ NewRateLimiter(0, 0, 0)
    /\ NewDailyGiftCounter
    /\ NoSendDirect
    /\ NewSender
    /\ NewThanks
    /\ NoRoomOp
    /\ NoParse
    /\ NoOutlet
    /\ NewIngestPipeline(FALSE)
    /\ NewGiftRule({}, {}, 1)

NextParser ==
    \/ \E p \in SendGiftPayloads : ParseSendGift(p)
    \/ \E p \in GuardBuyPayloads : ParseGuardBuy(p)

SpecParser == InitParser /\ [][NextParser]_vars

\* C34: every GiftEvent a parser returns has num >= 1 and total_price >= 0.
ParsedQuantityAndValueInRange ==
    parsed # NoEvent => parsed[1].num >= 1 /\ parsed[1].total_price >= 0

\* the pending rows of the room
PendingRows == {i \in Ids(rows) : rows[i].room_id = ROOM /\ rows[i].status = "pending"}

\* C35: when claim_next has returned nothing, the worker sleeps until the
\* earliest pending row of the room is eligible (not at all when one already
\* is), and the default 1 second when the room has no pending row; the sleep is
\* never negative and never ends after that row has become eligible.
IdleSleepUntilEarliestPending ==
    [][pc = "idle" /\ pc' = "sleep" =>
          IF PendingRows = {} THEN wake' = now + 1
          ELSE LET first == SetMin({rows[i].not_before : i \in PendingRows})
               IN  /\ wake' >= now
                   /\ wake' = Max2(now, first)]_vars

\* the worker sleeps, with no send tried yet, until the earlier of two pending
\* rows that are both not yet eligible
WitnessIdleSleepToEarliest ==
    /\ task = "running" /\ pc = "sleep"
    /\ hist_resched = {}
    /\ wake > now
    /\ \E i, j \in PendingRows :
          /\ rows[i].not_before = wake
          /\ rows[j].not_before > wake

\* C36: any two rows of the room that are pending or sending have not_before
\* values at least interval_sec apart, however enqueue calls and the worker's
\* reschedule calls interleave.
OutstandingSpacedByInterval ==
    \A i, j \in Ids(rows) :
        /\ i # j
        /\ rows[i].room_id = rows[j].room_id
        /\ rows[i].status \in {"pending", "sending"}
        /\ rows[j].status \in {"pending", "sending"}
        => \/ rows[i].not_before - rows[j].not_before >= interval_sec
           \/ rows[j].not_before - rows[i].not_before >= interval_sec

\* a rescheduled row is outstanding together with a row enqueued after it, and
\* with a third row
WitnessSpacedAfterReschedule ==
    \E i \in hist_resched : \E j, k \in Outstanding(rows, ROOM) :
        /\ i \in Outstanding(rows, ROOM)
        /\ j > i
        /\ k \notin {i, j}
        /\ rows[i].not_before > rows[j].not_before

\* C37: a row the worker has marked 'sent' stays 'sent' in every later state,
\* so no message is delivered twice, also when claim_next or
\* next_available_delay raises a store error.
SentIsTerminal ==
    [][\A i \in Ids(rows) : rows[i].status = "sent" => rows'[i].status = "sent"]_vars

\* ---- core/danmaku_sender.py: the worker loop left running -----------------
\* The process is not restarted, no store call raises, and the outbound channel
\* accepts every message after refusing MaxFaults sends at most with a code
\* 10030 or another error that is no ResponseCodeException.  The clock runs on
\* past MaxFree for as long as the worker sleeps on an outstanding message.

\* the messages the callers hand over in a run of the delivery specification
MaxQueued == 2

\* the seconds in which the clock runs freely in the delivery specification
MaxFree == 3

\* _send_direct raises, on one of the sends the channel does not accept
WorkerSendRefused ==
    /\ task = "running" /\ pc = "send"
    /\ faults < MaxFaults
    /\ faults' = faults + 1
    /\ \E e \in {"too_fast", "error"} :
          /\ exc' = e
          /\ throttled' = IF e = "too_fast"
                          THEN [until |-> now + interval_sec, same_task |-> TRUE]
                          ELSE throttled
    /\ pc' = "except"
    /\ UNCHANGED <<now, interval_sec, storeVars, task, msg, wake, callerVars, otherVars>>

\* time passes; past MaxFree the steps of the worker take no time, and the clock
\* advances only while the worker sleeps with a message outstanding
TickOn ==
    /\ \/ now < MaxFree
       \/ /\ task = "running" /\ pc \in {"sleep", "sleep_window"} /\ wake > now
          /\ Outstanding(rows, ROOM) # {}
    /\ now' = now + 1
    /\ throttled' = IF now + 1 >= throttled.until THEN NoThrottle ELSE throttled
    /\ UNCHANGED <<interval_sec, storeVars, workerVars, callerVars, otherVars>>

\* _enqueue_or_send, for the first MaxQueued messages
EnqueueQueued ==
    /\ Len(rows) < MaxQueued
    /\ EnqueueOrSend

InitDeliver ==
    /\ interval_sec = InitInterval(0)
    /\ NewStore
    /\ NewRateLimiter(0, 0, 0)
    /\ NewDailyGiftCounter
    /\ NoSendDirect
    /\ NewSender
    /\ NewThanks
    /\ NoRoomOp
    /\ NoParse
    /\ NoOutlet
    /\ NewIngestPipeline(FALSE)
    /\ NewGiftRule({}, {}, 1)

NextDeliver ==
    \/ EnqueueQueued
    \/ WorkerClaim
    \/ WorkerIdle
    \/ WorkerWake
    \/ WorkerSendOk
    \/ WorkerSendRefused
    \/ HandleTooFast
    \/ HandleException
    \/ TickOn

\* asyncio runs the worker task whenever it can run, and the clock advances;
\* nothing obliges the callers to enqueue or the channel to refuse
DeliverFairness ==
    /\ WF_vars(WorkerClaim)
    /\ WF_vars(WorkerIdle)
    /\ WF_vars(WorkerWake)
    /\ WF_vars(WorkerSendOk)
    /\ WF_vars(HandleTooFast)
    /\ WF_vars(HandleException)
    /\ WF_vars(TickOn)

SpecDeliver == InitDeliver /\ [][NextDeliver]_vars /\ DeliverFairness

\* C38: with the worker loop running and a channel that accepts every message
\* in the end, every enqueued message reaches status 'sent'.
EveryMessageEventuallySent ==
    \A i \in 1 .. MaxQueued :
        (i \in Ids(rows)) ~> (i \in Ids(rows) /\ rows[i].status = "sent")

\* a message that was refused and rescheduled has been sent
WitnessSentAfterRefusal ==
    \E i \in hist_resched : rows[i].status = "sent"

\* ---- services/ingest_pipeline.py: count mode, crossings and the limiter ----

\* _allow_thanks returned True for actor k in this step: _user_day_thanks[k] is
\* one more than it was after _ensure_thanks_day
AllowedThanks(k) ==
    user_day_thanks'[k] = (IF thanks_day' # thanks_day THEN 0 ELSE user_day_thanks[k]) + 1

\* the last-fired multiple of actor k, as _ensure_thanks_day leaves it
HitsCarried(k) == IF thanks_day' # thanks_day THEN 0 ELSE threshold_hits[k]

\* a refused crossing leaves the last-fired multiple alone; an accepted one
\* records total // threshold and calls _buffer_thanks once
CrossingStep(k) ==
    /\ ~AllowedThanks(k) =>
          /\ threshold_hits'[k] = HitsCarried(k)
          /\ fire_count'[k] = fire_count[k]
    /\ AllowedThanks(k) =>
          /\ threshold_hits'[k] = counts'[k] \div Threshold(rule')
          /\ threshold_hits'[k] > HitsCarried(k)
          /\ fire_count'[k] = [fire_count[k] EXCEPT ![thanks_day'] = @ + 1]

\* actor key has a multiple of the day's total not yet fired, gives a target
\* gift on that day, and neither the daily quota nor the limiter refuses
PendingCrossingAccepted(key, name, ts, combo) ==
    /\ IsTargetGift(rule, [gift_name |-> name, gift_id |-> 0, num |-> 0])
    /\ DayKey(ts) = current_day
    /\ (IF thanks_day # DayKey(ts) THEN 0 ELSE threshold_hits[key])
          < counts[key] \div Threshold(rule)
    /\ ~QuotaReached(IF thanks_day # DayKey(ts) THEN 0 ELSE user_day_thanks[key],
                     per_user_daily_limit)
    /\ AllowResult(key, AllowNow(ts, ts), combo)

\* C39: in count mode the last-fired multiple of an actor is updated only when
\* the limiter accepts and never exceeds floor(daily total / threshold); a
\* crossing the limiter refused fires on the actor's next target gift of the
\* day that the limiter accepts; a gift that crosses several multiples at once
\* buffers one notification.
RefusedCrossingNotConsumed ==
    /\ [](\A k \in Actors : threshold_hits[k] * Threshold(rule) <= counts[k])
    /\ [][\A k \in Actors : CrossingStep(k)]_vars
    /\ [][\A key \in Actors : \A name \in GiftNames :
          \A ts \in EdgeTimestamps : \A combo \in BOOLEAN :
             (/\ ~AllowedThanks(key)
              /\ PendingCrossingAccepted(key, name, ts, combo))
                => \A num \in {0, MaxAmount} :
                      ~HandleGiftCount(CurrentSettings, key, name, num, ts, combo)]_vars

\* three target gifts of one actor on one day, 2 + 2 + 1 with threshold 1: the
\* crossing of the second was refused, the third fired it, and each of the two
\* notifications covers more than one multiple
WitnessRefusedCrossingFiredLater ==
    \E k \in Actors :
        /\ handled = 3
        /\ Threshold(rule) = 1
        /\ true_total[k][thanks_day] = 2 * MaxAmount + 1
        /\ counts[k] = 2 * MaxAmount + 1
        /\ threshold_hits[k] = 2 * MaxAmount + 1
        /\ fire_count[k][thanks_day] = 2

\* ---- core/danmaku_sender.py: _trim and _enqueue_or_send --------------------

\* what str.strip() removes
Whitespace == {" "}

\* the messages the callers pass: any text, the empty one and blank ones too
RawMessages == UNION {[1 .. n -> {"a"} \cup Whitespace] : n \in 0 .. MaxLen}

\* str.lstrip()
RECURSIVE LStrip(_)
LStrip(m) == IF m # <<>> /\ Head(m) \in Whitespace THEN LStrip(Tail(m)) ELSE m

\* str.rstrip()
RECURSIVE RStrip(_)
RStrip(m) ==
    IF m # <<>> /\ m[Len(m)] \in Whitespace THEN RStrip(SubSeq(m, 1, Len(m) - 1)) ELSE m

\* message.strip()
Strip(m) == RStrip(LStrip(m))

\* variant: the message never cut
TrimNever(m, limit) == <<m, FALSE>>

\* _trim(message): (message[:max_length], True) when max_length is set and
\* exceeded, else (message, False)
Trim(m, limit) ==
    IF limit # 0 /\ Len(m) > limit THEN <<SubSeq(m, 1, limit), TRUE>> ELSE <<m, FALSE>>

\* _enqueue_or_send(message): enqueue and _ensure_queue_worker with a queue,
\* _send_direct without; nothing for an empty message or an empty trimmed one
EnqueueOrSendMessage(m) ==
    LET trimmed == Trim(Strip(m), max_length)[1]
        called == [outlet EXCEPT !.calls = @ + 1,
                                 !.blank = \A i \in 1 .. Len(m) : m[i] \in Whitespace]
    IN  /\ outlet.calls < MaxQueued
        /\ outlet' = IF m = <<>> THEN called
                     ELSE IF trimmed = <<>> THEN called
                     ELSE IF outlet.queue
                          THEN [called EXCEPT !.stored = Append(@, trimmed),
                                              !.worker = TRUE]
                          ELSE [called EXCEPT !.sent = Append(@, trimmed)]
        /\ UNCHANGED <<message, max_length, send_pc, attempts, replies, queueVars,
                       limiterVars, counterVars, pipeVars, ruleVars, ensureVars,
                       thanksVars, roomVars, parserVars>>

\* DanmakuSender.__init__: max_length = max(0, max_length), with a queue when
\* queue_db_path is set
InitOutlet ==
    /\ interval_sec = InitInterval(DEFAULT_INTERVAL_SEC)
    /\ NewStore
    /\ NewRateLimiter(0, 0, 0)
    /\ NewDailyGiftCounter
    /\ message = <<>>
    /\ \E l \in -1 .. MaxLen : max_length = Max2(0, l)
    /\ send_pc = "idle"
    /\ attempts = <<>>
    /\ replies = <<>>
    /\ NewSender
    /\ NewThanks
    /\ NoRoomOp
    /\ NoParse
    /\ \E q \in BOOLEAN :
          outlet = [queue |-> q, stored |-> <<>>, sent |-> <<>>, worker |-> FALSE,
                    calls |-> 0, blank |-> FALSE]
    /\ NewIngestPipeline(FALSE)
    /\ NewGiftRule({}, {}, 1)

NextOutlet == \E m \in RawMessages : EnqueueOrSendMessage(m)

SpecOutlet == InitOutlet /\ [][NextOutlet]_vars

\* C40: every body the sender stored in the queue is non-empty after stripping
\* and, when max_length > 0, has at most max_length characters; a call with an
\* empty or whitespace-only message enqueues nothing, sends nothing and starts
\* no worker.
StoredBodiesTrimmed ==
    /\ [](\A i \in 1 .. Len(outlet.stored) :
             /\ Strip(outlet.stored[i]) # <<>>
             /\ max_length > 0 => Len(outlet.stored[i]) <= max_length)
    /\ [][outlet'.calls # outlet.calls /\ outlet'.blank =>
             /\ outlet'.stored = outlet.stored
             /\ outlet'.sent = outlet.sent
             /\ outlet'.worker = outlet.worker]_vars

\* a text was stripped and cut to max_length, leaving a body that ends in
\* whitespace, and the call after it passed a blank message
WitnessCutBodyThenBlankCall ==
    /\ outlet.blank
    /\ outlet.worker
    /\ Len(outlet.stored) = 1
    /\ Len(outlet.stored[1]) = max_length
    /\ outlet.stored[1][max_length] \in Whitespace

====
